---- MODULE Spec2Model ----
(***************************************************************************)
(* Model of falcon.routing.compiled.CompiledRouter: the routing tree built *)
(* by add_route, the decision program generated by _compile, and the       *)
(* execution of that program by find.                                      *)
(*                                                                         *)
(* Strings are sequences.  A request path is a sequence of characters      *)
(* ("a", "/", ...).  A URI template is a sequence of tokens: a token is    *)
(* either one character or one whole field expression {fname:cname(args)}, *)
(* i.e. one match of _FIELD_PATTERN.                                       *)
(***************************************************************************)
EXTENDS Integers, Sequences, FiniteSets, TLC

VARIABLES
    roots,          \* CompiledRouter._roots: the routing tree
    find_fn,        \* CompiledRouter._find: _compile_and_find or a compiled finder
    return_values,  \* CompiledRouter._return_values
    patterns,       \* CompiledRouter._patterns
    converters,     \* CompiledRouter._converters
    converter_map,  \* CompiledRouter._converter_map (= options.converters.data)
    last,           \* the last add_route call and its outcome (or a find)
    clean,          \* a second router, on which the rejected templates are never attempted
    n_calls,        \* number of add_route calls made so far
    threads,        \* the threads that call the router: position and local variables
    shared          \* _compile_lock and the list objects the table attributes refer to

vars == <<roots, find_fn, return_values, patterns, converters, converter_map,
          last, clean, n_calls, threads, shared>>

\* Python's None and an optional value.
None == <<>>
Some(v) == <<v>>

----------------------------------------------------------------------------
(* Tokens and strings                                                      *)

\* One literal character of a template.
Ch(c) == [k |-> "ch", c |-> c, fname |-> <<>>, colon |-> FALSE, cname |-> <<>>, argstr |-> None]

\* One field expression {fname}, {fname:cname} or {fname:cname(argstr)}: the
\* groups fname, cname and argstr of one match of _FIELD_PATTERN (names are
\* sequences of characters; colon says whether the ':' separator is there).
Field(fname, colon, cname, argstr) ==
    [k |-> "field", c |-> "", fname |-> fname, colon |-> colon, cname |-> cname, argstr |-> argstr]

Slash == Ch("/")

\* str.lstrip(sep)
RECURSIVE lstrip(_, _)
lstrip(s, sep) ==
    IF s # <<>> /\ Head(s) = sep THEN lstrip(Tail(s), sep) ELSE s

\* str.split(sep): always at least one piece, empty pieces kept.
RECURSIVE split(_, _)
split(s, sep) ==
    IF \A i \in 1..Len(s) : s[i] # sep
    THEN <<s>>
    ELSE LET i == CHOOSE j \in 1..Len(s) : s[j] = sep /\ \A m \in 1..(j-1) : s[m] # sep
         IN <<SubSeq(s, 1, i-1)>> \o split(SubSeq(s, i+1, Len(s)), sep)

\* The text of a sequence of character tokens.
Text(raw) == [i \in 1..Len(raw) |-> raw[i].c]

\* dict helpers (a dict is a function from its keys)
EmptyDict == [x \in {} |-> None]
Put(d, key, v) == [x \in (DOMAIN d) \cup {key} |-> IF x = key THEN v ELSE d[x]]
Update(d, e) == [x \in (DOMAIN d) \cup (DOMAIN e) |-> IF x \in DOMAIN e THEN e[x] ELSE d[x]]
Pop(d, key) == [x \in (DOMAIN d) \ {key} |-> d[x]]

\* Values held by fragments and params: a str is one segment, a list is a
\* list of segments, an int is the digits it was parsed from.
StrV(s) == [t |-> "str", v |-> <<s>>]
ListV(segs) == [t |-> "list", v |-> segs]
IntV(s) == [t |-> "int", v |-> <<s>>]

----------------------------------------------------------------------------
(* falcon.routing.converters (an external collaborator of the router)      *)

Digits == {"1", "2"}

IntConverter == [name |-> "IntConverter", CONSUME_MULTIPLE_SEGMENTS |-> FALSE]
PathConverter == [name |-> "PathConverter", CONSUME_MULTIPLE_SEGMENTS |-> TRUE]

\* converters.BUILTIN: the pre-installed registry.
INT == <<"i", "n", "t">>
PATH == <<"p", "a", "t", "h">>
BUILTIN == [n \in {INT, PATH} |-> IF n = INT THEN IntConverter ELSE PathConverter]

\* converters._consumes_multiple_segments
consumes_multiple_segments(converter) == converter.CONSUME_MULTIPLE_SEGMENTS

\* The argument strings the constructors accept: none, or a digit count.
\* Any other argstr makes the evaluated constructor call raise.
instantiate_raises(klass, argstr) ==
    argstr # None /\ ~(klass = IntConverter /\ argstr[1] = <<"1">>)

\* BaseConverter.convert: [kind |-> "value", v |-> ...], [kind |-> "None"]
\* (rejected) or [kind |-> "raise"] (the fragment is not of the type the
\* converter handles).
convert(obj, fragment) ==
    IF obj.klass = IntConverter
    THEN IF fragment.t # "str" THEN [kind |-> "raise", v |-> StrV(<<>>)]
         ELSE LET s == fragment.v[1]
              IN IF obj.argstr # None /\ Len(s) # 1 THEN [kind |-> "None", v |-> StrV(<<>>)]
                 ELSE IF s # <<>> /\ \A i \in 1..Len(s) : s[i] \in Digits
                      THEN [kind |-> "value", v |-> IntV(s)]
                      ELSE [kind |-> "None", v |-> StrV(<<>>)]
    ELSE IF fragment.t = "list"
         THEN [kind |-> "value", v |-> ListV(fragment.v)]
         ELSE LET s == fragment.v[1]
              IN [kind |-> "value", v |-> ListV([i \in 1..Len(s) |-> <<s[i]>>])]

----------------------------------------------------------------------------
(* CompiledRouterNode                                                      *)

\* list(_FIELD_PATTERN.finditer(raw_segment))
field_matches(raw_segment) == SelectSeq(raw_segment, LAMBDA t : t.k = "field")

is_var(raw_segment) == field_matches(raw_segment) # <<>>
num_fields(raw_segment) == Len(field_matches(raw_segment))

\* matches[0].span() == (0, len(raw_segment))
is_complex(raw_segment) ==
    is_var(raw_segment) /\ ~(Len(raw_segment) = 1 /\ raw_segment[1].k = "field")

var_name(raw_segment) == raw_segment[1].fname

\* (fname, cname, argstr) of every field that names a converter.
var_converter_map(raw_segment) ==
    LET named == SelectSeq(field_matches(raw_segment), LAMBDA t : t.cname # <<>>)
    IN [i \in 1..Len(named) |-> <<named[i].fname, named[i].cname, named[i].argstr>>]

\* The characters re.sub(r'[\.\(\)\[\]\?\$\*\+\^\|]', ...) escapes.
EscapedChars == {".", "(", ")", "[", "]", "?", "$", "*", "+", "^", "|"}

\* What an unescaped character means in a regular expression.
regex_atom(c) == IF c = "." THEN "any" ELSE "lit"

\* One element of the compiled pattern for one token of the segment.
pattern_element(t) ==
    IF t.k = "field" THEN [kind |-> "group", c |-> "", name |-> t.fname]
    ELSE IF t.c \in EscapedChars THEN [kind |-> "lit", c |-> t.c, name |-> <<>>]
    ELSE [kind |-> regex_atom(t.c), c |-> t.c, name |-> <<>>]

\* re.compile('^' + _FIELD_PATTERN.sub(r'(?P<\2>.+)', escaped_segment) + '$')
var_pattern(raw_segment) == [i \in 1..Len(raw_segment) |-> pattern_element(raw_segment[i])]

\* Pattern.match(s): None, or Some(groupdict).  Every group is a greedy
\* '.+': it takes the longest prefix that lets the rest of the pattern match.
RECURSIVE pattern_match(_, _)
pattern_match(pat, s) ==
    IF pat = <<>> THEN (IF s = <<>> THEN Some(EmptyDict) ELSE None)
    ELSE LET e == Head(pat)
         IN IF e.kind = "lit"
            THEN IF s # <<>> /\ Head(s) = e.c THEN pattern_match(Tail(pat), Tail(s)) ELSE None
            ELSE IF e.kind = "any"
            THEN IF s # <<>> THEN pattern_match(Tail(pat), Tail(s)) ELSE None
            ELSE LET ok == {n \in 1..Len(s) :
                               pattern_match(Tail(pat), SubSeq(s, n+1, Len(s))) # None}
                 IN IF ok = {} THEN None
                    ELSE LET n == CHOOSE m \in ok : \A j \in ok : j <= m
                             rest == pattern_match(Tail(pat), SubSeq(s, n+1, Len(s)))
                         IN Some(Put(rest[1], e.name, StrV(SubSeq(s, 1, n))))

CompiledRouterNode(raw_segment) ==
    [raw_segment |-> raw_segment, method_map |-> None, resource |-> None,
     uri_template |-> None, children |-> <<>>]

\* CompiledRouterNode.matches
matches(node, segment) == segment = node.raw_segment

\* _FIELD_PATTERN.sub('v', segment)
shape(segment) == [i \in 1..Len(segment) |-> IF segment[i].k = "field" THEN Ch("v") ELSE segment[i]]

\* A node that conflicts with no segment.
never_conflicts(node, segment) == FALSE

\* A field node that conflicts with every field segment, whatever their kinds.
conflicts_with_any_field(node, segment) == is_var(node.raw_segment) /\ is_var(segment)

\* CompiledRouterNode.conflicts_with (called only when matches is false)
conflicts_with(node, segment) ==
    IF is_var(node.raw_segment)
    THEN IF is_complex(node.raw_segment)
         THEN is_complex(segment) /\ shape(node.raw_segment) = shape(segment)
         ELSE is_var(segment) /\ ~is_complex(segment)
    ELSE FALSE

----------------------------------------------------------------------------
(* CompiledRouter.add_route                                                *)

\* CompiledRouter.map_http_methods: the method map built for a resource.
map_http_methods(resource) == {<<"GET", resource>>}

Lower == {"a", "b", "c", "d", "e", "f", "g", "h", "i", "j", "k", "l", "m",
          "n", "o", "p", "q", "r", "s", "t", "u", "v", "w", "x", "y", "z"}
Upper == {"A", "B", "C", "D", "E", "F", "G", "H", "I", "J", "K", "L", "M",
          "N", "O", "P", "Q", "R", "S", "T", "U", "V", "W", "X", "Y", "Z"}
DecimalDigits == {"0", "1", "2", "3", "4", "5", "6", "7", "8", "9"}
Whitespace == {" ", "\t", "\n", "\r"}

\* _IDENTIFIER_PATTERN.match(name): '[A-Za-z_][A-Za-z0-9_]*$', where '$'
\* also matches just before a final newline.
is_identifier(name) ==
    LET body == IF name # <<>> /\ name[Len(name)] = "\n"
                THEN SubSeq(name, 1, Len(name) - 1) ELSE name
    IN /\ body # <<>>
       /\ body[1] \in Lower \cup Upper \cup {"_"}
       /\ \A i \in 2..Len(body) : body[i] \in Lower \cup Upper \cup DecimalDigits \cup {"_"}

\* keyword.kwlist (the entries short enough to matter here)
kwlist == {<<"i", "f">>, <<"i", "n">>, <<"i", "s">>, <<"o", "r">>, <<"a", "s">>}

\* re.search(r'\s', _FIELD_PATTERN.sub('{FIELD}', uri_template))
has_whitespace(uri_template) ==
    \E i \in 1..Len(uri_template) :
        uri_template[i].k = "ch" /\ uri_template[i].c \in Whitespace

\* The fields of the whole path, in order, as _validate_template_segment
\* visits them segment after segment with the shared used_names set.
RECURSIVE all_fields(_)
all_fields(path) ==
    IF path = <<>> THEN <<>> ELSE field_matches(Head(path)) \o all_fields(Tail(path))

\* _validate_template_segment on one field, given the names used before it.
field_is_invalid(field, used_names) ==
    \/ ~is_identifier(field.fname) \/ field.fname \in kwlist
    \/ field.fname \in used_names
    \/ (field.colon /\ field.cname = <<>>)
    \/ /\ field.cname # <<>>
       /\ \/ field.cname \notin DOMAIN converter_map
          \/ instantiate_raises(converter_map[field.cname], field.argstr)

\* Whether the validation loop of add_route raises UnacceptableRouteError.
validation_fails(path) ==
    LET fs == all_fields(path)
    IN \E i \in 1..Len(fs) :
           field_is_invalid(fs[i], {fs[j].fname : j \in 1..(i-1)})

\* A lookup that finds no multi-segment converter in any node.
no_cmp_converter(raw_segment) == None

\* find_cmp_converter: the first (field, converter) of the node whose
\* converter consumes multiple segments, or None.
find_cmp_converter(raw_segment) ==
    LET vcm == var_converter_map(raw_segment)
        value == SelectSeq(vcm, LAMBDA e : consumes_multiple_segments(converter_map[e[2]]))
    IN IF value # <<>> THEN Some(<<value[1][1], value[1][2]>>) ELSE None

\* The terminal fields add_route writes on the last node of the path.
set_terminal(node, route) ==
    [node EXCEPT !.method_map = Some(route.method_map),
                 !.resource = Some(route.resource),
                 !.uri_template = Some(route.uri_template)]

\* insert(nodes, path_index): [err, nodes].  err says UnacceptableRouteError
\* was raised; nodes is the list as the call left it (the lists are
\* mutated in place, so what was appended before a raise stays).
RECURSIVE insert(_, _, _, _)
insert(nodes, path, path_index, route) ==
    LET segment == path[path_index + 1]
        \* the first node of the loop that matches or conflicts
        hits == {i \in 1..Len(nodes) :
                    matches(nodes[i], segment) \/ conflicts_with(nodes[i], segment)}
    IN IF hits # {}
       THEN LET i == CHOOSE h \in hits : \A g \in hits : h <= g
                node == nodes[i]
            IN IF matches(node, segment)
               THEN IF path_index + 1 = Len(path)
                    THEN [err |-> FALSE, nodes |-> [nodes EXCEPT ![i] = set_terminal(node, route)]]
                    ELSE IF find_cmp_converter(node.raw_segment) # None
                    THEN [err |-> TRUE, nodes |-> nodes]
                    ELSE LET r == insert(node.children, path, path_index + 1, route)
                         IN [err |-> r.err, nodes |-> [nodes EXCEPT ![i].children = r.nodes]]
               ELSE [err |-> TRUE, nodes |-> nodes]
       ELSE LET new_node == CompiledRouterNode(segment)
            IN IF is_complex(segment) /\ find_cmp_converter(segment) # None
               THEN [err |-> TRUE, nodes |-> nodes]
               ELSE IF path_index = Len(path) - 1
               THEN [err |-> FALSE, nodes |-> Append(nodes, set_terminal(new_node, route))]
               ELSE IF find_cmp_converter(segment) # None
               THEN [err |-> TRUE, nodes |-> nodes]   \* nodes.remove(new_node)
               ELSE LET r == insert(<<>>, path, path_index + 1, route)
                    IN [err |-> r.err,
                        nodes |-> Append(nodes, [new_node EXCEPT !.children = r.nodes])]

----------------------------------------------------------------------------
(* The constructs of the decision program (_Cx* classes)                   *)

CxIfPathLength(comparison, length, children) ==
    [cx |-> "IfPathLength", comparison |-> comparison, length |-> length, children |-> children]
CxIfPathSegmentLiteral(segment_idx, literal, children) ==
    [cx |-> "IfPathSegmentLiteral", segment_idx |-> segment_idx, literal |-> literal,
     children |-> children]
CxIfPathSegmentPattern(segment_idx, pattern_idx, children) ==
    [cx |-> "IfPathSegmentPattern", segment_idx |-> segment_idx, pattern_idx |-> pattern_idx,
     children |-> children]
CxIfConverterField(unique_idx, converter_idx, children) ==
    [cx |-> "IfConverterField", unique_idx |-> unique_idx, converter_idx |-> converter_idx,
     children |-> children]
CxSetFragmentFromField(field_name) == [cx |-> "SetFragmentFromField", field_name |-> field_name]
CxSetFragmentFromPath(segment_idx) == [cx |-> "SetFragmentFromPath", segment_idx |-> segment_idx]
CxSetFragmentFromRemainingPaths(segment_idx) ==
    [cx |-> "SetFragmentFromRemainingPaths", segment_idx |-> segment_idx]
CxVariableFromPatternMatch(unique_idx) ==
    [cx |-> "VariableFromPatternMatch", unique_idx |-> unique_idx]
CxVariableFromPatternMatchPrefetched(unique_idx) ==
    [cx |-> "VariableFromPatternMatchPrefetched", unique_idx |-> unique_idx]
CxPrefetchGroupsFromPatternMatch == [cx |-> "PrefetchGroupsFromPatternMatch"]
CxReturnNone == [cx |-> "ReturnNone"]
CxReturnValue(value_idx) == [cx |-> "ReturnValue", value_idx |-> value_idx]
CxSetParamFromPath(param_name, segment_idx) ==
    [cx |-> "SetParamFromPath", param_name |-> param_name, segment_idx |-> segment_idx]
\* params[param_name] = field_value_<unique_idx>
CxSetParamFromValue(param_name, unique_idx) ==
    [cx |-> "SetParamFromValue", param_name |-> param_name, unique_idx |-> unique_idx]
\* params.update(<dict_name>_<unique_idx>), dict_name is dict_match or dict_groups
CxSetParamsFromDict(dict_name, unique_idx) ==
    [cx |-> "SetParamsFromDict", dict_name |-> dict_name, unique_idx |-> unique_idx]

----------------------------------------------------------------------------
(* CompiledRouter._generate_ast and _compile                               *)

\* The node a reference (the child indexes from the roots down) points to.
RECURSIVE node_at(_, _)
node_at(nodes, ref) ==
    IF Len(ref) = 1 THEN nodes[ref[1]] ELSE node_at(nodes[ref[1]].children, Tail(ref))

\* The sort key of _generate_ast: static 0, complex 1, simple 2.
sort_key(node) ==
    IF ~is_var(node.raw_segment) THEN 0
    ELSE IF is_complex(node.raw_segment) THEN 1 ELSE 2

\* sorted(nodes, key=...): the indexes of nodes in sorted order (stable).
sorted_nodes(nodes) ==
    LET idx == [i \in 1..Len(nodes) |-> i]
    IN SelectSeq(idx, LAMBDA i : sort_key(nodes[i]) = 0)
       \o SelectSeq(idx, LAMBDA i : sort_key(nodes[i]) = 1)
       \o SelectSeq(idx, LAMBDA i : sort_key(nodes[i]) = 2)

\* _instantiate_converter appended to the converters table, for the entries
\* of a var_converter_map; is_simple says the node is a simple field.
RECURSIVE add_converters(_, _, _)
add_converters(vcm, is_simple, acc) ==
    IF vcm = <<>> THEN acc
    ELSE LET cname == Head(vcm)[2]
             argstr == Head(vcm)[3]
             bad == \/ cname \notin DOMAIN converter_map
                    \/ instantiate_raises(converter_map[cname], argstr)
                    \/ (~is_simple /\ consumes_multiple_segments(converter_map[cname]))
         IN IF bad THEN [acc EXCEPT !.err = "Error"]
            ELSE add_converters(Tail(vcm), is_simple,
                     [acc EXCEPT !.converters =
                         Append(@, [klass |-> converter_map[cname], argstr |-> argstr])])

\* The nested constructs _generate_conversion_ast appends for the converted
\* fields of a complex node, around the constructs of the innermost body.
RECURSIVE conversion_chain(_, _, _, _)
conversion_chain(vcm, unique_idx, converter_idx, body) ==
    IF vcm = <<>> THEN body
    ELSE <<CxSetFragmentFromField(Head(vcm)[1]),
           CxIfConverterField(unique_idx, converter_idx,
               conversion_chain(Tail(vcm), unique_idx + 1, converter_idx + 1, body))>>

\* The deferred assignments _generate_conversion_ast pushes on params_stack.
conversion_params(raw_segment, params_stack) ==
    LET vcm == var_converter_map(raw_segment)
        n == Len(params_stack)
        converted == [i \in 1..Len(vcm) |-> CxSetParamFromValue(vcm[i][1], n + i)]
    IN params_stack \o converted
       \o (IF num_fields(raw_segment) > Len(vcm)
           THEN <<CxSetParamsFromDict("dict_groups", n + Len(vcm) + 1)>> ELSE <<>>)

\* params_stack after the node's own deferred assignment was pushed.
node_params(raw_segment, params_stack, level) ==
    IF ~is_var(raw_segment) THEN params_stack
    ELSE IF is_complex(raw_segment)
    THEN IF var_converter_map(raw_segment) # <<>>
         THEN conversion_params(raw_segment, params_stack)
         ELSE Append(params_stack, CxSetParamsFromDict("dict_match", Len(params_stack) + 1))
    ELSE IF var_converter_map(raw_segment) # <<>>
    THEN Append(params_stack, CxSetParamFromValue(var_name(raw_segment), Len(params_stack) + 1))
    ELSE Append(params_stack, CxSetParamFromPath(var_name(raw_segment), level))

\* Whether a simple node's converter object consumes multiple segments.
consume_multiple_segments(raw_segment) ==
    /\ is_var(raw_segment) /\ ~is_complex(raw_segment)
    /\ var_converter_map(raw_segment) # <<>>
    /\ var_converter_map(raw_segment)[1][2] \in DOMAIN converter_map
    /\ consumes_multiple_segments(converter_map[var_converter_map(raw_segment)[1][2]])

\* The terminal return with the assignments of params_stack emitted ahead
\* of the length test instead of inside it.
eager_terminal_constructs(node, resource_idx, params_stack, level, fast_return) ==
    IF node.resource = None
    THEN IF fast_return THEN <<CxReturnNone>> ELSE <<>>
    ELSE params_stack
         \o <<CxIfPathLength("==", level + 1, <<CxReturnValue(resource_idx)>>)>>
         \o (IF fast_return THEN <<CxReturnNone>> ELSE <<>>)

\* The constructs appended after the node's children: the terminal return
\* and the fast 'return None'.
terminal_constructs(node, resource_idx, params_stack, level, fast_return) ==
    IF node.resource = None
    THEN IF fast_return THEN <<CxReturnNone>> ELSE <<>>
    ELSE IF consume_multiple_segments(node.raw_segment)
    THEN params_stack \o <<CxReturnValue(resource_idx)>>
    ELSE <<CxIfPathLength("==", level + 1, params_stack \o <<CxReturnValue(resource_idx)>>)>>
         \o (IF fast_return THEN <<CxReturnNone>> ELSE <<>>)

\* The node's own test, wrapped around the constructs of its body, as the
\* list of constructs appended to outer_parent.
node_constructs(raw_segment, level, pattern_idx, converter_idx, unique_idx, body) ==
    IF ~is_var(raw_segment)
    THEN <<CxIfPathSegmentLiteral(level, Text(raw_segment), body)>>
    ELSE IF is_complex(raw_segment)
    THEN IF var_converter_map(raw_segment) # <<>>
         THEN LET vcm == var_converter_map(raw_segment)
                  inner == (IF num_fields(raw_segment) > Len(vcm)
                            THEN <<CxVariableFromPatternMatchPrefetched(unique_idx + Len(vcm))>>
                            ELSE <<>>) \o body
              IN <<CxIfPathSegmentPattern(level, pattern_idx,
                       <<CxPrefetchGroupsFromPatternMatch>>
                       \o conversion_chain(vcm, unique_idx, converter_idx, inner))>>
         ELSE <<CxIfPathSegmentPattern(level, pattern_idx,
                    <<CxVariableFromPatternMatch(unique_idx)>> \o body)>>
    ELSE IF var_converter_map(raw_segment) # <<>>
    THEN <<(IF consume_multiple_segments(raw_segment)
            THEN CxSetFragmentFromRemainingPaths(level)
            ELSE CxSetFragmentFromPath(level)),
           CxIfConverterField(unique_idx, converter_idx, body)>>
    ELSE body

\* fast_return left on whatever the siblings are.
always_fast_return(nodes, fast_return) == TRUE

\* fast_return as _generate_ast updates it for a list of nodes.
next_fast_return(nodes, fast_return) ==
    IF fast_return /\ Len(nodes) > 1
    THEN ~\E i \in 1..Len(nodes) : is_var(nodes[i].raw_segment)
    ELSE fast_return

\* assert len([n for n in nodes if n.is_var and not n.is_complex]) == 1,
\* made when a simple field node is generated.
assert_one_simple(nodes, node) ==
    LET raw == node.raw_segment
    IN (is_var(raw) /\ ~is_complex(raw)) =>
           Cardinality({i \in 1..Len(nodes) :
               is_var(nodes[i].raw_segment) /\ ~is_complex(nodes[i].raw_segment)}) = 1

\* assert not (consume_multiple_segments and node.children)
assert_no_children(node) ==
    ~(consume_multiple_segments(node.raw_segment) /\ node.children # <<>>)

\* The assertions of _generate_ast on one node.
node_asserts(nodes, node) ==
    LET raw == node.raw_segment
    IN /\ (is_var(raw) /\ ~is_complex(raw)) => Len(var_converter_map(raw)) <= 1
       /\ assert_one_simple(nodes, node)
       /\ assert_no_children(node)

\* The tables after the node's pattern and converter objects were appended
\* (patterns.append, self._converters.append).
node_tables(raw_segment, acc) ==
    add_converters(var_converter_map(raw_segment), ~is_complex(raw_segment),
                   IF is_complex(raw_segment)
                   THEN [acc EXCEPT !.patterns = Append(@, var_pattern(raw_segment))]
                   ELSE acc)

\* The tables after return_values.append(node) and the node's assertions.
node_returns(nodes, node, node_ref, acc) ==
    [acc EXCEPT !.return_values = IF node.resource # None THEN Append(@, node_ref) ELSE @,
                !.err = IF node_asserts(nodes, node) THEN @ ELSE "Error"]

\* The constructs of one node followed by those of the nodes after it.
join_constructs(head, rest) ==
    [constructs |-> head \o rest.constructs, acc |-> rest.acc]

\* _generate_ast(nodes, parent, ...): [constructs, acc], the constructs
\* appended to parent and the tables acc = [return_values, patterns,
\* converters, err] as the call leaves them.  ref is the reference of the
\* node whose children nodes are.
RECURSIVE generate_ast(_, _, _, _, _, _)
RECURSIVE generate_nodes(_, _, _, _, _, _, _)

\* One iteration of the loop, from the recursion into the children on: acc
\* and acc2 are the tables before the node and after its own entries, stack
\* its params_stack, sub what the recursion returned.
generate_node_body(nodes, order, ref, params_stack, level, fast_return, acc, acc2, stack, sub) ==
    join_constructs(
        node_constructs(nodes[Head(order)].raw_segment, level, Len(acc.patterns),
                        Len(acc.converters), Len(params_stack) + 1,
                        sub.constructs
                        \o terminal_constructs(nodes[Head(order)], Len(acc2.return_values),
                                               stack, level, fast_return)),
        generate_nodes(nodes, Tail(order), ref, params_stack, level, fast_return, sub.acc))

\* One iteration of the loop, once the node's own table entries are made.
generate_node(nodes, order, ref, params_stack, level, fast_return, acc, acc2, stack) ==
    IF acc2.err # "" THEN [constructs |-> <<>>, acc |-> acc2]
    ELSE generate_node_body(nodes, order, ref, params_stack, level, fast_return, acc, acc2, stack,
             generate_ast(nodes[Head(order)].children, Append(ref, Head(order)), stack,
                          level + 1, fast_return,
                          node_returns(nodes, nodes[Head(order)], Append(ref, Head(order)), acc2)))

\* The loop over the sorted nodes.
generate_nodes(nodes, order, ref, params_stack, level, fast_return, acc) ==
    IF order = <<>> THEN [constructs |-> <<>>, acc |-> acc]
    ELSE generate_node(nodes, order, ref, params_stack, level, fast_return, acc,
                       node_tables(nodes[Head(order)].raw_segment, acc),
                       node_params(nodes[Head(order)].raw_segment, params_stack, level))

\* The 'if path_len > level' block around the constructs g of the nodes.
level_constructs(nodes, level, fast, g) ==
    [constructs |->
         <<CxIfPathLength(">", level,
               g.constructs
               \o (IF fast /\ ~\E i \in 1..Len(nodes) :
                                   is_var(nodes[i].raw_segment) /\ ~is_complex(nodes[i].raw_segment)
                   THEN <<CxReturnNone>> ELSE <<>>))>>,
     acc |-> g.acc]

\* The body of _generate_ast once fast_return was updated to fast.
generate_level(nodes, ref, params_stack, level, fast, acc) ==
    level_constructs(nodes, level, fast,
        generate_nodes(nodes, sorted_nodes(nodes), ref, params_stack, level, fast, acc))

generate_ast(nodes, ref, params_stack, level, fast_return, acc) ==
    IF nodes = <<>> THEN [constructs |-> <<>>, acc |-> acc]
    ELSE generate_level(nodes, ref, params_stack, level,
                        next_fast_return(nodes, fast_return), acc)

\* Whether a Python string literal '<text>' formatted into the source does
\* not parse (the quote is the one such character of the alphabets used).
literal_is_invalid(text) == \E i \in 1..Len(text) : text[i] \in {"'", "\n"}

IfConstructs == {"IfPathLength", "IfPathSegmentLiteral", "IfPathSegmentPattern",
                 "IfConverterField"}

\* Whether compile() rejects the source rendered from the constructs: an
\* 'if' whose block is empty, or a string literal that does not parse.
RECURSIVE source_is_invalid(_)
source_is_invalid(constructs) ==
    \E i \in 1..Len(constructs) :
        LET c == constructs[i]
        IN \/ /\ c.cx \in IfConstructs
              /\ (c.children = <<>> \/ source_is_invalid(c.children))
           \/ (c.cx = "IfPathSegmentLiteral" /\ literal_is_invalid(c.literal))
           \/ (c.cx \in {"SetParamFromPath", "SetParamFromValue"}
                  /\ literal_is_invalid(c.param_name))
           \/ (c.cx = "SetFragmentFromField" /\ literal_is_invalid(c.field_name))

EmptyTables == [return_values |-> <<>>, patterns |-> <<>>, converters |-> <<>>, err |-> ""]

\* What _compile() leaves once _generate_ast returned g: the tables, the
\* finder (the constructs of self._ast), and err: "" or the exception raised.
compile_result(g) ==
    [err |-> IF g.acc.err # "" THEN "AssertionError"
             ELSE IF source_is_invalid(g.constructs) THEN "SyntaxError" ELSE "",
     ast |-> g.constructs,
     return_values |-> g.acc.return_values,
     patterns |-> g.acc.patterns,
     converters |-> g.acc.converters]

\* _compile()
compile(nodes) == compile_result(generate_ast(nodes, <<>>, <<>>, 0, TRUE, EmptyTables))

----------------------------------------------------------------------------
(* Execution of the compiled finder                                        *)

\* The local variables of find(path, return_values, patterns, converters,
\* params) at its start.  status is "run", "return" or "raise".
InitialEnv(path, rv, pats, convs) ==
    [path |-> path, return_values |-> rv, patterns |-> pats, converters |-> convs,
     bound |-> {}, match |-> None, groups |-> EmptyDict, fragment |-> StrV(<<>>),
     field_value |-> EmptyDict, dict_match |-> EmptyDict, dict_groups |-> EmptyDict,
     params |-> EmptyDict, status |-> "run", result |-> None]

Raise(env) == [env EXCEPT !.status = "raise"]

\* A finder that enters the block whatever the converter returned.
always_converted(r) == TRUE

\* 'if field_value_N is not None:' of _CxIfConverterField
is_not_None(r) == r.kind = "value"

\* A literal test that every segment passes.
any_segment(segment, literal) == TRUE

\* _CxIfPathSegmentLiteral: 'path[segment_idx] == literal'
segment_is_literal(segment, literal) == segment = literal

RECURSIVE exec(_, _)
exec_construct(c, env) ==
    LET path_len == Len(env.path)
    IN CASE c.cx = "IfPathLength" ->
              IF (c.comparison = ">" /\ path_len > c.length)
                 \/ (c.comparison = "==" /\ path_len = c.length)
              THEN exec(c.children, env) ELSE env
         [] c.cx = "IfPathSegmentLiteral" ->
              IF c.segment_idx >= path_len THEN Raise(env)
              ELSE IF segment_is_literal(env.path[c.segment_idx + 1], c.literal)
              THEN exec(c.children, env) ELSE env
         [] c.cx = "IfPathSegmentPattern" ->
              IF c.pattern_idx >= Len(env.patterns) \/ c.segment_idx >= path_len
              THEN Raise(env)
              ELSE LET m == pattern_match(env.patterns[c.pattern_idx + 1],
                                          env.path[c.segment_idx + 1])
                       env1 == [env EXCEPT !.match = m, !.bound = @ \cup {"match"}]
                   IN IF m # None THEN exec(c.children, env1) ELSE env1
         [] c.cx = "PrefetchGroupsFromPatternMatch" ->
              IF "match" \notin env.bound \/ env.match = None THEN Raise(env)
              ELSE [env EXCEPT !.groups = env.match[1], !.bound = @ \cup {"groups"}]
         [] c.cx = "VariableFromPatternMatch" ->
              IF "match" \notin env.bound \/ env.match = None THEN Raise(env)
              ELSE [env EXCEPT !.dict_match = Put(@, c.unique_idx, env.match[1])]
         [] c.cx = "VariableFromPatternMatchPrefetched" ->
              IF "groups" \notin env.bound THEN Raise(env)
              ELSE [env EXCEPT !.dict_groups = Put(@, c.unique_idx, env.groups)]
         [] c.cx = "SetFragmentFromField" ->
              IF "groups" \notin env.bound \/ c.field_name \notin DOMAIN env.groups
              THEN Raise(env)
              ELSE [env EXCEPT !.fragment = env.groups[c.field_name],
                               !.groups = Pop(@, c.field_name),
                               !.bound = @ \cup {"fragment"}]
         [] c.cx = "SetFragmentFromPath" ->
              IF c.segment_idx >= path_len THEN Raise(env)
              ELSE [env EXCEPT !.fragment = StrV(env.path[c.segment_idx + 1]),
                               !.bound = @ \cup {"fragment"}]
         [] c.cx = "SetFragmentFromRemainingPaths" ->
              [env EXCEPT !.fragment = ListV(SubSeq(env.path, c.segment_idx + 1, path_len)),
                          !.bound = @ \cup {"fragment"}]
         [] c.cx = "IfConverterField" ->
              IF c.converter_idx >= Len(env.converters) \/ "fragment" \notin env.bound
              THEN Raise(env)
              ELSE LET r == convert(env.converters[c.converter_idx + 1], env.fragment)
                       env1 == [env EXCEPT !.field_value = Put(@, c.unique_idx, r)]
                   IN IF r.kind = "raise" THEN Raise(env)
                      ELSE IF is_not_None(r) THEN exec(c.children, env1) ELSE env1
         [] c.cx = "SetParamFromPath" ->
              IF c.segment_idx >= path_len THEN Raise(env)
              ELSE [env EXCEPT !.params = Put(@, c.param_name, StrV(env.path[c.segment_idx + 1]))]
         [] c.cx = "SetParamFromValue" ->
              IF c.unique_idx \notin DOMAIN env.field_value THEN Raise(env)
              ELSE [env EXCEPT !.params = Put(@, c.param_name, env.field_value[c.unique_idx].v)]
         [] c.cx = "SetParamsFromDict" ->
              LET d == IF c.dict_name = "dict_match" THEN env.dict_match ELSE env.dict_groups
              IN IF c.unique_idx \notin DOMAIN d THEN Raise(env)
                 ELSE [env EXCEPT !.params = Update(@, d[c.unique_idx])]
         [] c.cx = "ReturnNone" -> [env EXCEPT !.status = "return", !.result = None]
         [] c.cx = "ReturnValue" ->
              IF c.value_idx >= Len(env.return_values) THEN Raise(env)
              ELSE [env EXCEPT !.status = "return",
                               !.result = Some(env.return_values[c.value_idx + 1])]

\* The statements of a block, one after the other, until one returns or raises.
exec(constructs, env) ==
    IF constructs = <<>> \/ env.status # "run" THEN env
    ELSE exec(Tail(constructs), exec_construct(Head(constructs), env))

\* The trailing 'return None' of the generated function.
return_none(env) ==
    IF env.status = "run" THEN [env EXCEPT !.status = "return", !.result = None] ELSE env

\* The call of a compiled finder: the function body, then 'return None'.
run_finder(ast, path, rv, pats, convs) ==
    return_none(exec(ast, InitialEnv(path, rv, pats, convs)))

----------------------------------------------------------------------------
(* Inputs                                                                  *)

\* Bound on the number of add_route calls of a run.  The resource of the
\* k-th call is the resource object k.
MaxCalls == 3

fx == Field(<<"x">>, FALSE, <<>>, None)                 \* {x}
fy == Field(<<"y">>, FALSE, <<>>, None)                 \* {y}
fn_int == Field(<<"n">>, TRUE, INT, None)               \* {n:int}
fp_path == Field(<<"p">>, TRUE, PATH, None)             \* {p:path}

\* The URI templates add_route is called with.
Templates ==
    { <<Slash, Ch("a"), Slash, Ch("b")>>,               \* /a/b
      <<Slash, fx, Slash, Ch("b")>>,                    \* /{x}/b
      <<Slash, fx>>,                                    \* /{x}
      <<Slash, Ch("a"), Slash, fx, Ch("."), fy>>,       \* /a/{x}.{y}
      <<Slash, Ch("a"), Slash, fn_int, Ch("."), fy>>,   \* /a/{n:int}.{y}
      <<Slash, Ch("a"), Slash, fp_path>>,               \* /a/{p:path}
      <<Slash, Ch("a"), Slash, fp_path, Slash, Ch("b")>>,   \* /a/{p:path}/b
      <<Slash, Ch("b"), Slash, fp_path, Ch("."), Ch("a")>>, \* /b/{p:path}.a
      <<Slash, fn_int>>,                                \* /{n:int}
      <<Slash, Ch("a"), Ch("'")>>,                      \* /a'
      <<Slash, fx, Slash, fx>> }                        \* /{x}/{x}

\* The request paths find is called with.
Uris ==
    { <<"/">>,
      <<"/", "a">>,
      <<"/", "b">>,
      <<"/", "1">>,
      <<"/", "a", "/", "b">>,
      <<"/", "/", "a", "/", "b">>,
      <<"/", "b", "/", "b">>,
      <<"/", "a", "/", "1", ".", "b">>,
      <<"/", "a", "/", "1", ".", "b", ".", "b">>,
      <<"/", "a", "/", "b", ".", "b">>,
      <<"/", "a", "/", "b", "/", "b">>,
      <<"/", "a", "/">>,
      <<"/", "a", "'">> }

----------------------------------------------------------------------------
(* The router                                                              *)

Lazy == [compiled |-> FALSE, ast |-> <<>>]              \* self._compile_and_find
Compiled(ast) == [compiled |-> TRUE, ast |-> ast]       \* a function _compile returned

\* A router after __init__.
NewRouter ==
    [roots |-> <<>>, find_fn |-> Lazy, return_values |-> <<>>, patterns |-> <<>>,
     converters |-> <<>>]

\* The router the variables hold.
Router ==
    [roots |-> roots, find_fn |-> find_fn, return_values |-> return_values,
     patterns |-> patterns, converters |-> converters]

\* The router after _compile() ran on it and raised or returned c.
compiled_router(rt, c) ==
    [rt EXCEPT !.return_values = c.return_values, !.patterns = c.patterns,
               !.converters = c.converters,
               !.find_fn = IF c.err = "" THEN Compiled(c.ast) ELSE @]

\* add_route once self._compile() ran on router rt and left c.
after_compile(rt, c) ==
    [router |-> compiled_router(rt, c), outcome |-> IF c.err = "" THEN "ok" ELSE c.err]

\* add_route from the call insert(self._roots) on, which left ins.
after_insert(rt, ins, compile_now) ==
    IF ins.err
    THEN [router |-> [rt EXCEPT !.roots = ins.nodes], outcome |-> "UnacceptableRouteError"]
    ELSE IF compile_now
    THEN after_compile([rt EXCEPT !.roots = ins.nodes], compile(ins.nodes))
    ELSE [router |-> [rt EXCEPT !.roots = ins.nodes, !.find_fn = Lazy], outcome |-> "ok"]

\* add_route(uri_template, resource, compile=compile_now) on router rt:
\* the router it leaves and its outcome, "ok" or the exception raised.
add_route(rt, uri_template, resource, compile_now) ==
    IF \/ has_whitespace(uri_template)
       \/ validation_fails(split(lstrip(uri_template, Slash), Slash))
    THEN [router |-> rt, outcome |-> "UnacceptableRouteError"]
    ELSE after_insert(rt,
             insert(rt.roots, split(lstrip(uri_template, Slash), Slash), 0,
                    [method_map |-> map_http_methods(resource), resource |-> resource,
                     uri_template |-> uri_template]),
             compile_now)

NoResult ==
    [outcome |-> "None", resource |-> None, method_map |-> {}, params |-> EmptyDict,
     uri_template |-> None]

\* What find returns from the node the finder returned in env: outcome
\* "match" with the 4-tuple, "None", or "raise".
node_result(node, env) ==
    [outcome |-> "match",
     resource |-> node.resource,
     method_map |-> IF node.method_map = None THEN {} ELSE node.method_map[1],
     params |-> env.params,
     uri_template |-> node.uri_template]

find_result(nodes, env) ==
    IF env.status = "raise" THEN [NoResult EXCEPT !.outcome = "raise"]
    ELSE IF env.result = None THEN NoResult
    ELSE node_result(node_at(nodes, env.result[1]), env)

\* _compile_and_find: the router after the compilation under the lock.
compile_and_find(rt) ==
    IF rt.find_fn.compiled THEN rt ELSE compiled_router(rt, compile(rt.roots))

\* The call self._find(path, ...) on the router rt1 that holds the finder.
call_finder(rt1, path) ==
    IF ~rt1.find_fn.compiled
    THEN [router |-> rt1, result |-> [NoResult EXCEPT !.outcome = "raise"]]
    ELSE [router |-> rt1,
          result |-> find_result(rt1.roots,
                         run_finder(rt1.find_fn.ast, path, rt1.return_values,
                                    rt1.patterns, rt1.converters))]

\* find(uri) on router rt: the router it leaves and what it returns.
find(rt, uri) == call_finder(compile_and_find(rt), split(lstrip(uri, "/"), "/"))

\* The runs in which one caller makes one call after the other have no
\* threads and nothing shared between them.
NoThreads == <<>>
NoShared == <<>>

NoCall ==
    [op |-> "init", uri_template |-> <<>>, resource |-> 0, compile |-> FALSE, outcome |-> ""]

Init ==
    /\ roots = <<>>
    /\ find_fn = Lazy
    /\ return_values = <<>>
    /\ patterns = <<>>
    /\ converters = <<>>
    /\ converter_map = BUILTIN
    /\ last = NoCall
    /\ clean = NewRouter
    /\ n_calls = 0
    /\ threads = NoThreads
    /\ shared = NoShared

\* The variables take the fields of router rt.
SetRouter(rt) ==
    /\ roots' = rt.roots
    /\ find_fn' = rt.find_fn
    /\ return_values' = rt.return_values
    /\ patterns' = rt.patterns
    /\ converters' = rt.converters

\* The effect of a call add_route(uri_template, n_calls + 1, compile_now)
\* that left s = [router, outcome].
Added(uri_template, compile_now, s) ==
    /\ n_calls' = n_calls + 1
    /\ SetRouter(s.router)
    /\ last' = [op |-> "add_route", uri_template |-> uri_template,
                resource |-> n_calls + 1, compile |-> compile_now, outcome |-> s.outcome]
    /\ clean' = IF s.outcome = "UnacceptableRouteError" THEN clean
                ELSE add_route(clean, uri_template, n_calls + 1, compile_now).router
    /\ UNCHANGED <<converter_map, threads, shared>>

\* A call add_route(uri_template, resource n_calls + 1, compile=compile_now).
AddRoute(uri_template, compile_now) ==
    /\ n_calls < MaxCalls
    /\ Added(uri_template, compile_now,
             add_route(Router, uri_template, n_calls + 1, compile_now))

\* A call find(uri).
Find(uri) ==
    /\ SetRouter(find(Router, uri).router)
    /\ last' = [NoCall EXCEPT !.op = "find"]
    /\ clean' = find(clean, uri).router
    /\ UNCHANGED <<converter_map, n_calls, threads, shared>>

Next ==
    \/ \E t \in Templates, b \in BOOLEAN : AddRoute(t, b)
    \/ \E u \in Uris : Find(u)

Spec == Init /\ [][Next]_vars

----------------------------------------------------------------------------
(* The reference search the router is specified against, and what it means *)
(* for one template to match a path                                        *)

\* The converted values of the fields of a complex segment: the groups of
\* the match, each passed through its converter when it names one; None when
\* a converter rejects its group.
segment_values(raw_segment, groups) ==
    LET fs == field_matches(raw_segment)
        conv(f) == convert([klass |-> converter_map[f.cname], argstr |-> f.argstr],
                           groups[f.fname])
    IN IF \E i \in 1..Len(fs) : fs[i].cname # <<>> /\ conv(fs[i]).kind # "value"
       THEN None
       ELSE Some([n \in DOMAIN groups |->
                    LET f == CHOOSE g \in {fs[i] : i \in 1..Len(fs)} : g.fname = n
                    IN IF f.cname # <<>> THEN conv(f).v ELSE groups[n]])

\* What a node binds when it is tried on segment `level` of the path: None
\* when the node does not accept the segment, else Some(params it adds).
node_binds(raw_segment, path, level) ==
    LET seg == path[level + 1]
    IN IF ~is_var(raw_segment)
       THEN IF seg = Text(raw_segment) THEN Some(EmptyDict) ELSE None
       ELSE IF is_complex(raw_segment)
       THEN LET m == pattern_match(var_pattern(raw_segment), seg)
            IN IF m = None THEN None ELSE segment_values(raw_segment, m[1])
       ELSE LET f == raw_segment[1]
                fragment == IF consume_multiple_segments(raw_segment)
                            THEN ListV(SubSeq(path, level + 1, Len(path)))
                            ELSE StrV(seg)
                r == convert([klass |-> converter_map[f.cname], argstr |-> f.argstr], fragment)
            IN IF f.cname = <<>> THEN Some(Put(EmptyDict, f.fname, StrV(seg)))
               ELSE IF r.kind = "value" THEN Some(Put(EmptyDict, f.fname, r.v)) ELSE None

\* The children in the order the search tries them: literals, then complex
\* fields, then the simple field.
search_order(nodes) ==
    LET idx == [i \in 1..Len(nodes) |-> i]
    IN SelectSeq(idx, LAMBDA i : ~is_var(nodes[i].raw_segment))
       \o SelectSeq(idx, LAMBDA i : is_complex(nodes[i].raw_segment))
       \o SelectSeq(idx, LAMBDA i : is_var(nodes[i].raw_segment)
                                     /\ ~is_complex(nodes[i].raw_segment))

\* The walk from segment `level` over `nodes`: None, or Some([node, params])
\* for the first terminal a walk reaches.
RECURSIVE walk(_, _, _, _)
RECURSIVE walk_nodes(_, _, _, _, _)
walk_nodes(nodes, order, path, level, params) ==
    IF order = <<>> THEN None
    ELSE LET node == nodes[Head(order)]
             b == node_binds(node.raw_segment, path, level)
             ps == Update(params, b[1])
             below == walk(node.children, path, level + 1, ps)
             here == IF b = None THEN None
                     ELSE IF consume_multiple_segments(node.raw_segment)
                     THEN (IF node.resource # None THEN Some([node |-> node, params |-> ps])
                           ELSE None)
                     ELSE IF below # None THEN below
                     ELSE IF node.resource # None /\ Len(path) = level + 1
                     THEN Some([node |-> node, params |-> ps])
                     ELSE None
         IN IF here # None THEN here
            ELSE walk_nodes(nodes, Tail(order), path, level, params)

walk(nodes, path, level, params) ==
    IF level >= Len(path) THEN None
    ELSE walk_nodes(nodes, search_order(nodes), path, level, params)

\* The match record the reference search gives for a uri over a tree.
reference_search(nodes, uri) ==
    LET w == walk(nodes, split(lstrip(uri, "/"), "/"), 0, EmptyDict)
    IN IF w = None THEN NoResult
       ELSE [outcome |-> "match", resource |-> w[1].node.resource,
             method_map |-> w[1].node.method_map[1], params |-> w[1].params,
             uri_template |-> w[1].node.uri_template]

\* The segments of a template.
template_path(uri_template) == split(lstrip(uri_template, Slash), Slash)

\* The tree that holds the one route uri_template.
single_route(uri_template) ==
    insert(<<>>, template_path(uri_template), 0,
           [method_map |-> {}, resource |-> 0, uri_template |-> uri_template])

\* Template uri_template, on its own, matches the uri.
template_matches(uri_template, uri) ==
    /\ ~single_route(uri_template).err
    /\ reference_search(single_route(uri_template).nodes, uri).outcome = "match"

\* The field names a template declares.
field_names(uri_template) ==
    LET fs == all_fields(template_path(uri_template))
    IN {fs[i].fname : i \in 1..Len(fs)}

\* The terminal nodes of a tree.
RECURSIVE terminals(_)
terminals(nodes) ==
    UNION {(IF nodes[i].resource # None THEN {nodes[i]} ELSE {})
           \cup terminals(nodes[i].children) : i \in 1..Len(nodes)}

\* The templates registered in a tree.
registered(nodes) == {n.uri_template[1] : n \in terminals(nodes)}

\* uri is matched by the registered template t and by no other one.
only_match(nodes, t, uri) ==
    /\ t \in registered(nodes)
    /\ \A o \in registered(nodes) : template_matches(o, uri) <=> o = t

\* Every node of a tree, at every depth.
RECURSIVE all_nodes(_)
all_nodes(nodes) ==
    UNION {{nodes[i]} \cup all_nodes(nodes[i].children) : i \in 1..Len(nodes)}

\* Every list of siblings of a tree: the roots and each node's children.
levels(nodes) == {nodes} \cup {n.children : n \in all_nodes(nodes)}

----------------------------------------------------------------------------
(* Notions the properties are stated with                                  *)

route_path(uri) == split(lstrip(uri, "/"), "/")

\* The tree holds what the accepted add_route calls put there, nothing else.
accepted_only == clean.roots = roots

\* A segment has a field whose converter consumes multiple segments.
uses_multi(raw_segment) ==
    \E i \in 1..Len(raw_segment) :
        /\ raw_segment[i].k = "field"
        /\ raw_segment[i].cname \in DOMAIN converter_map
        /\ converter_map[raw_segment[i].cname].CONSUME_MULTIPLE_SEGMENTS

\* The template ends in a simple field with a multi-segment converter.
ends_in_multi(uri_template) ==
    LET tp == template_path(uri_template)
    IN uses_multi(tp[Len(tp)]) /\ ~is_complex(tp[Len(tp)])

\* The template goes on after a multi-segment field, or uses one inside a
\* complex segment.
misuses_multi(uri_template) ==
    LET tp == template_path(uri_template)
    IN \E i \in 1..Len(tp) : uses_multi(tp[i]) /\ (i < Len(tp) \/ is_complex(tp[i]))

\* The field's converter accepts the fragment (no converter: any text).
accepts(field, fragment) ==
    \/ field.cname = <<>>
    \/ convert([klass |-> converter_map[field.cname], argstr |-> field.argstr],
               fragment).kind = "value"

\* s is the segment written out with every field replaced by a non-empty
\* value its converter accepts.
RECURSIVE canonical_segment(_, _)
canonical_segment(raw_segment, s) ==
    IF raw_segment = <<>> THEN s = <<>>
    ELSE LET t == Head(raw_segment)
         IN IF t.k = "ch"
            THEN s # <<>> /\ Head(s) = t.c /\ canonical_segment(Tail(raw_segment), Tail(s))
            ELSE \E n \in 1..Len(s) :
                     /\ accepts(t, StrV(SubSeq(s, 1, n)))
                     /\ canonical_segment(Tail(raw_segment), SubSeq(s, n + 1, Len(s)))

\* uri is a canonical path of the template.
is_canonical_path(uri_template, uri) ==
    LET tp == template_path(uri_template)
        path == route_path(uri)
        n == Len(tp)
    IN IF ends_in_multi(uri_template)
       THEN /\ Len(path) >= n
            /\ \A i \in 1..(n - 1) : canonical_segment(tp[i], path[i])
            /\ accepts(tp[n][1], ListV(SubSeq(path, n, Len(path))))
       ELSE /\ Len(path) = n
            /\ \A i \in 1..n : canonical_segment(tp[i], path[i])

\* Two trees have the same nodes in the same places.
RECURSIVE same_structure(_, _)
same_structure(a, b) ==
    /\ Len(a) = Len(b)
    /\ \A i \in 1..Len(a) :
           /\ a[i].raw_segment = b[i].raw_segment
           /\ same_structure(a[i].children, b[i].children)

\* find returned the route (resource, uri_template) with the resource's method map.
returns_route(result, resource, uri_template) ==
    /\ result.outcome = "match"
    /\ result.resource = Some(resource)
    /\ result.method_map = map_http_methods(resource)
    /\ result.uri_template = Some(uri_template)

\* The last call was add_route(T, r, compile=True) and it succeeded.
added_compiled == last.op = "add_route" /\ last.compile /\ last.outcome = "ok"

----------------------------------------------------------------------------
(* Properties                                                              *)

\* C1: when the tree holds only what accepted templates put there, find
\* returns for every path exactly the match record of the reference search
\* (literals, then complex fields, then the simple field; a terminal must
\* consume the whole path unless it ends in a multi-segment converter).
C1_FindIsReferenceSearch ==
    accepted_only =>
        \A u \in Uris : find(Router, u).result = reference_search(roots, u)

\* C2: whenever find returns a match with template T, the keys of the
\* params it returns are exactly the field names T declares.
C2_ParamsAreFieldsOfTemplate ==
    \A u \in Uris :
        LET r == find(Router, u).result
        IN r.outcome = "match" => DOMAIN r.params = field_names(r.uri_template[1])

\* C3: an add_route call that fails with UnacceptableRouteError leaves the
\* routing tree as it was before the call.
C3_FailedAddRestoresTree ==
    [][(n_calls' = n_calls + 1 /\ last'.outcome = "UnacceptableRouteError")
          => roots' = roots]_vars

\* C4: for every path a registered template matches, find returns the same
\* match record as the router on which the rejected templates were never
\* attempted, whether or not a recompilation happened since.
C4_SameAsNeverAttempted ==
    \A u \in Uris :
        find(clean, u).result.outcome = "match"
            => find(Router, u).result = find(clean, u).result

\* C5 as stated: after add_route(T, r, compile=True) succeeds, find returns r
\* and T for every canonical path of T, whatever else is registered.
C5_CanonicalPathFound ==
    added_compiled =>
        \A u \in Uris :
            is_canonical_path(last.uri_template, u)
                => returns_route(find(Router, u).result, last.resource, last.uri_template)

\* C5: after add_route(T, r, compile=True) succeeds, find returns r and T
\* for every path that T's own segment tests accept and that no other
\* registered template accepts.
C5_OnlyMatchFound ==
    added_compiled =>
        \A u \in Uris :
            only_match(roots, last.uri_template, u)
                => returns_route(find(Router, u).result, last.resource, last.uri_template)

\* Reached: T was added with compile=True to a router holding other routes,
\* some path is matched by T alone and another one by T and another route.
C5_Witness ==
    /\ added_compiled
    /\ Cardinality(registered(roots)) >= 2
    /\ \E u \in Uris : only_match(roots, last.uri_template, u)
    /\ \E u \in Uris : /\ template_matches(last.uri_template, u)
                       /\ ~only_match(roots, last.uri_template, u)

\* C6: add_route(T, r1) followed by add_route(T, r2) leaves the tree with the
\* same nodes in the same places, and find then returns r2 with the method
\* map built for r2 for every path that T, and no other registered template,
\* matches.
C6_RegisterTwice ==
    [][(/\ last.op = "add_route" /\ last.outcome = "ok"
        /\ n_calls' = n_calls + 1 /\ last'.outcome = "ok"
        /\ last'.uri_template = last.uri_template)
          => /\ same_structure(roots, roots')
             /\ \A u \in Uris :
                    only_match(roots', last'.uri_template, u)
                        => returns_route(find(Router', u).result, last'.resource,
                                         last'.uri_template)]_vars

\* C7: find never returns a template that does not end in a multi-segment
\* converter for a path whose number of segments differs from the template's.
C7_ExactSegmentCount ==
    \A u \in Uris :
        LET r == find(Router, u).result
        IN (r.outcome = "match" /\ ~ends_in_multi(r.uri_template[1]))
               => Len(route_path(u)) = Len(template_path(r.uri_template[1]))

\* C8: for a registered template T ending, at position i, in a simple
\* multi-segment field: a path with at least i+1 segments that T and no other
\* registered template matches is resolved to T with the field bound to the
\* converter's result for path[i:], and a path with at most i segments is
\* never resolved to T.
C8_MultiSegmentTerminal ==
    \A t \in registered(roots) :
        ends_in_multi(t) =>
            \A u \in Uris :
                LET tp == template_path(t)
                    field == tp[Len(tp)][1]
                    path == route_path(u)
                    r == find(Router, u).result
                    rest == ListV(SubSeq(path, Len(tp), Len(path)))
                    value == convert([klass |-> converter_map[field.cname],
                                      argstr |-> field.argstr], rest).v
                IN /\ only_match(roots, t, u) =>
                          /\ r.outcome = "match" /\ r.uri_template = Some(t)
                          /\ field.fname \in DOMAIN r.params
                          /\ r.params[field.fname] = value
                   /\ Len(path) < Len(tp) =>
                          ~(r.outcome = "match" /\ r.uri_template = Some(t))

\* C9: no node with a multi-segment converter has children, no complex node
\* uses one, add_route of a template that misuses one fails with
\* UnacceptableRouteError, and the generator's assertion on multi-segment
\* nodes holds on every node.
C9_MultiSegmentNodesAreLeaves ==
    /\ \A n \in all_nodes(roots) :
           /\ uses_multi(n.raw_segment) => n.children = <<>>
           /\ ~(is_complex(n.raw_segment) /\ uses_multi(n.raw_segment))
           /\ assert_no_children(n)
    /\ (last.op = "add_route" /\ misuses_multi(last.uri_template))
           => last.outcome = "UnacceptableRouteError"

\* Reached: the tree holds a multi-segment node and the last call, of a
\* template that goes on after a multi-segment field, was rejected.
C9_Witness ==
    /\ \E n \in all_nodes(roots) : uses_multi(n.raw_segment) /\ n.resource # None
    /\ last.op = "add_route" /\ misuses_multi(last.uri_template)
    /\ last.outcome = "UnacceptableRouteError"

\* C10: at every level of the tree at most one child is a simple field, no
\* two complex children have the same shape, all children differ in their raw
\* segment, and the generator's assertion on simple fields holds.
C10_SiblingInvariants ==
    \A nodes \in levels(roots) :
        /\ Cardinality({i \in 1..Len(nodes) :
               is_var(nodes[i].raw_segment) /\ ~is_complex(nodes[i].raw_segment)}) <= 1
        /\ \A i, j \in 1..Len(nodes) :
               i # j => /\ nodes[i].raw_segment # nodes[j].raw_segment
                        /\ (is_complex(nodes[i].raw_segment) /\ is_complex(nodes[j].raw_segment))
                               => shape(nodes[i].raw_segment) # shape(nodes[j].raw_segment)
        /\ \A i \in 1..Len(nodes) : assert_one_simple(nodes, nodes[i])

\* Reached: a level holds a complex field and a simple field, and the last
\* call, of a template conflicting with one of them, was rejected.
C10_Witness ==
    /\ last.op = "add_route" /\ last.outcome = "UnacceptableRouteError"
    /\ \E nodes \in levels(roots) :
           /\ \E i \in 1..Len(nodes) : is_complex(nodes[i].raw_segment)
           /\ \E i \in 1..Len(nodes) :
                  is_var(nodes[i].raw_segment) /\ ~is_complex(nodes[i].raw_segment)
           /\ LET tp == template_path(last.uri_template)
              IN \E i \in 1..Len(nodes) : conflicts_with(nodes[i], tp[Len(tp)])

----------------------------------------------------------------------------
(* C11: the sibling conflict table                                         *)

\* The kind of a segment: "Literal", "SimpleField" or "ComplexField".
kind(segment) ==
    IF ~is_var(segment) THEN "Literal"
    ELSE IF is_complex(segment) THEN "ComplexField" ELSE "SimpleField"

\* The conflict table: the existing sibling and the new segment are both
\* simple fields, or both complex fields of the same shape signature.
table_conflict(existing, new) ==
    \/ (kind(existing) = "SimpleField" /\ kind(new) = "SimpleField")
    \/ (kind(existing) = "ComplexField" /\ kind(new) = "ComplexField"
           /\ shape(existing) = shape(new))

\* The level at which a path leaves the tree: the first list of siblings,
\* going down through the nodes whose raw text equals the path's segments,
\* that holds no node equal to the segment; None when every segment of the
\* path has its node already.
RECURSIVE new_sibling_level(_, _, _)
new_sibling_level(nodes, path, path_index) ==
    LET segment == path[path_index + 1]
        same == {i \in 1..Len(nodes) : nodes[i].raw_segment = segment}
    IN IF same = {}
       THEN Some([nodes |-> nodes, segment |-> segment, depth |-> path_index + 1])
       ELSE IF path_index + 1 = Len(path) THEN None
       ELSE new_sibling_level(nodes[CHOOSE i \in same : TRUE].children, path, path_index + 1)

\* The tree has a chain of nodes for the first `depth` segments of the path.
RECURSIVE has_branch(_, _, _, _)
has_branch(nodes, path, path_index, depth) ==
    path_index >= depth
    \/ \E i \in 1..Len(nodes) :
           /\ nodes[i].raw_segment = path[path_index + 1]
           /\ has_branch(nodes[i].children, path, path_index + 1, depth)

\* The template passes the checks add_route makes before it inserts.
passes_validation(uri_template) ==
    ~has_whitespace(uri_template) /\ ~validation_fails(template_path(uri_template))

\* The new segment of the level conflicts with one of the siblings there.
level_conflict(lvl) ==
    \E i \in 1..Len(lvl.nodes) : table_conflict(lvl.nodes[i].raw_segment, lvl.segment)

\* The conflict table decides the call add_route(uri_template) that led
\* from tree `before` to tree `after` with the given outcome.
table_decides(before, after, uri_template, outcome) ==
    LET path == template_path(uri_template)
        lvl == new_sibling_level(before, path, 0)
    IN lvl # None =>
           /\ (outcome = "UnacceptableRouteError") <=> level_conflict(lvl[1])
           /\ ~level_conflict(lvl[1]) => has_branch(after, path, 0, lvl[1].depth)

----------------------------------------------------------------------------
(* C12: template-level violations                                          *)

fx_newline == Field(<<"x", "\n">>, FALSE, <<>>, None)    \* {x<newline>}
f_digit == Field(<<"1", "x">>, FALSE, <<>>, None)        \* {1x}
f_if == Field(<<"i", "f">>, FALSE, <<>>, None)           \* {if}
fx_colon == Field(<<"x">>, TRUE, <<>>, None)             \* {x:}
fx_nope == Field(<<"x">>, TRUE, <<"n", "o">>, None)      \* {x:no}
fn_args == Field(<<"n">>, TRUE, INT, Some(<<"z">>))      \* {n:int(z)}

\* The URI templates of the runs that exercise the validation of add_route.
ValidationTemplates ==
    { <<Slash, Ch("a"), Slash, Ch("b")>>,               \* /a/b
      <<Slash, fx>>,                                    \* /{x}
      <<Slash, Ch("a"), Ch(" "), Slash, Ch("b")>>,      \* /a /b
      <<Slash, f_digit>>,                               \* /{1x}
      <<Slash, fx_newline>>,                            \* /{x<newline>}
      <<Slash, Ch("a"), Slash, f_if>>,                  \* /a/{if}
      <<Slash, fx, Slash, fx>>,                         \* /{x}/{x}
      <<Slash, Ch("b"), Slash, fx_colon>>,              \* /b/{x:}
      <<Slash, Ch("b"), Slash, fx_nope>>,               \* /b/{x:no}
      <<Slash, Ch("b"), Slash, fn_args>> }              \* /b/{n:int(z)}

NextValidation ==
    \/ \E t \in ValidationTemplates, b \in BOOLEAN : AddRoute(t, b)
    \/ \E u \in Uris : Find(u)

SpecValidation == Init /\ [][NextValidation]_vars

\* A name of the form [A-Za-z_][A-Za-z0-9_]*.
identifier(name) ==
    /\ name # <<>>
    /\ name[1] \in Lower \cup Upper \cup {"_"}
    /\ \A i \in 2..Len(name) : name[i] \in Lower \cup Upper \cup DecimalDigits \cup {"_"}

\* The template breaks one of the template-level rules.
template_violation(uri_template) ==
    LET fs == all_fields(template_path(uri_template))
    IN \/ \E i \in 1..Len(uri_template) :
              uri_template[i].k = "ch" /\ uri_template[i].c \in Whitespace
       \/ \E i \in 1..Len(fs) :
              \/ ~identifier(fs[i].fname)
              \/ fs[i].fname \in kwlist
              \/ \E j \in 1..(i - 1) : fs[j].fname = fs[i].fname
              \/ (fs[i].colon /\ fs[i].cname = <<>>)
              \/ /\ fs[i].cname # <<>>
                 /\ \/ fs[i].cname \notin DOMAIN converter_map
                    \/ instantiate_raises(converter_map[fs[i].cname], fs[i].argstr)

\* C12: add_route of a template with whitespace outside its fields, a field
\* name that is no identifier or a reserved word, a field name used twice,
\* a ':' with no converter name, an unknown converter or a converter whose
\* constructor raises fails with UnacceptableRouteError, and leaves the tree,
\* the finder and its tables as they were.
C12_TemplateViolationsRejected ==
    [][(n_calls' = n_calls + 1 /\ template_violation(last'.uri_template))
          => /\ last'.outcome = "UnacceptableRouteError"
             /\ roots' = roots /\ find_fn' = find_fn
             /\ return_values' = return_values /\ patterns' = patterns
             /\ converters' = converters]_vars

----------------------------------------------------------------------------
(* Runs over routes whose branches overlap: literal, complex and simple    *)
(* children that accept the same segments, converters that reject          *)

fz == Field(<<"z">>, FALSE, <<>>, None)                 \* {z}

BranchTemplates ==
    { <<Slash, Ch("a"), Slash, Ch("b")>>,               \* /a/b
      <<Slash, Ch("a"), Slash, fz>>,                    \* /a/{z}
      <<Slash, Ch("a"), Slash, fn_int, Ch("."), fy>>,   \* /a/{n:int}.{y}
      <<Slash, fx, Slash, Ch("c")>>,                    \* /{x}/c
      <<Slash, fn_int, Slash, Ch("c")>>,                \* /{n:int}/c
      <<Slash, Ch("b"), Slash, fp_path, Ch("."), Ch("a")>>, \* /b/{p:path}.a
      <<Slash, Ch("a"), Ch("'")>> }                     \* /a'

BranchUris ==
    { <<"/">>,
      <<"/", "a">>,
      <<"/", "a", "/", "b">>,
      <<"/", "a", "/", "c">>,
      <<"/", "a", "/", "1", ".", "b">>,
      <<"/", "a", "/", "b", ".", "b">>,
      <<"/", "a", "/", "1", ".", "b", "/", "c">>,
      <<"/", "1", "/", "c">>,
      <<"/", "b", "/", "c">>,
      <<"/", "1", "/", "b">>,
      <<"/", "a", "'">> }

NextBranches ==
    \/ \E t \in BranchTemplates, b \in BOOLEAN : AddRoute(t, b)
    \/ \E u \in BranchUris : Find(u)

SpecBranches == Init /\ [][NextBranches]_vars

----------------------------------------------------------------------------
(* C13: deferred parameter assignment                                      *)

SetParamConstructs == {"SetParamFromPath", "SetParamFromValue", "SetParamsFromDict"}

\* The local variable of the finder a construct assigns ({} when none) and
\* the one an assignment to params reads.
slot_assigned(c) ==
    CASE c.cx = "IfConverterField" -> {<<"field_value", c.unique_idx>>}
      [] c.cx = "VariableFromPatternMatch" -> {<<"dict_match", c.unique_idx>>}
      [] c.cx = "VariableFromPatternMatchPrefetched" -> {<<"dict_groups", c.unique_idx>>}
      [] OTHER -> {}

slot_read(c) ==
    CASE c.cx = "SetParamFromValue" -> {<<"field_value", c.unique_idx>>}
      [] c.cx = "SetParamsFromDict" -> {<<c.dict_name, c.unique_idx>>}
      [] OTHER -> {}

\* In a block and the blocks nested in it: every assignment to params is
\* followed, up to the end of its block, by assignments to params and then
\* one 'return return_values[i]'; and it reads a variable that was assigned,
\* once, on the way from the top of the program to it (`assigned` holds the
\* variables assigned on the way to the block).
RECURSIVE deferred_writes(_, _)
deferred_writes(constructs, assigned) ==
    \A i \in 1..Len(constructs) :
        LET c == constructs[i]
            before == assigned \cup UNION {slot_assigned(constructs[j]) : j \in 1..(i - 1)}
        IN /\ c.cx \in SetParamConstructs =>
                  /\ i < Len(constructs)
                  /\ constructs[i + 1].cx \in SetParamConstructs \cup {"ReturnValue"}
                  /\ slot_read(c) \subseteq before
           /\ slot_assigned(c) \cap before = {}
           /\ c.cx \in IfConstructs =>
                  deferred_writes(c.children, before \cup slot_assigned(c))

\* The local variables of the finder when the call find(uri) on router rt
\* leaves it (a router whose compilation fails has no finder to run).
finder_env(rt, uri) ==
    LET rt1 == compile_and_find(rt)
    IN run_finder(rt1.find_fn.ast, route_path(uri), rt1.return_values, rt1.patterns,
                  rt1.converters)

\* The finder of the router is the one compiled from its tree, with the
\* tables of that compilation.
finder_is_current(rt) ==
    LET c == compile(rt.roots)
    IN /\ rt.find_fn.compiled /\ c.err = ""
       /\ rt.find_fn.ast = c.ast /\ rt.return_values = c.return_values
       /\ rt.patterns = c.patterns /\ rt.converters = c.converters

\* The field values template uri_template, on its own, captures from uri.
captured_by(uri_template, uri) ==
    reference_search(single_route(uri_template).nodes, uri).params

\* C13: the finder writes to params only in a run of assignments that ends
\* in the return of a match, each reading a value captured on the way to it;
\* when find returns None params was never written; and the params of a
\* match are the values the returned template captures from the path.
C13_DeferredParams ==
    /\ compile_and_find(Router).find_fn.compiled =>
           /\ deferred_writes(compile_and_find(Router).find_fn.ast, {})
           /\ \A u \in BranchUris :
                  (finder_env(Router, u).status = "return"
                      /\ finder_env(Router, u).result = None)
                      => finder_env(Router, u).params = EmptyDict
    /\ finder_is_current(compile_and_find(Router)) =>
           \A u \in BranchUris :
               LET r == find(Router, u).result
               IN r.outcome = "match" => r.params = captured_by(r.uri_template[1], u)

\* Reached: for one path the finder returns None after a pattern matched and
\* a conversion succeeded on the way; for another it returns a match of a
\* simple field after the pattern of a complex sibling matched and its
\* conversion failed.
C13_Witness ==
    /\ finder_is_current(compile_and_find(Router))
    /\ \E u \in BranchUris :
           LET env == finder_env(Router, u)
           IN /\ env.status = "return" /\ env.result = None
              /\ env.match # None
              /\ \E k \in DOMAIN env.field_value : env.field_value[k].kind = "value"
    /\ \E u \in BranchUris :
           LET env == finder_env(Router, u)
           IN /\ env.status = "return" /\ env.result # None
              /\ env.match # None
              /\ \E k \in DOMAIN env.field_value : env.field_value[k].kind = "None"
              /\ DOMAIN env.params \cap DOMAIN env.match[1] = {}

----------------------------------------------------------------------------
(* C14: the order in which the children of a level are tested              *)

\* The first position at which two templates have different segments (0
\* when one is a prefix of the other).
first_difference(t1, t2) ==
    LET p1 == template_path(t1)
        p2 == template_path(t2)
        d == {i \in 1..Len(p1) : i <= Len(p2) /\ p1[i] # p2[i]}
    IN IF d = {} THEN 0 ELSE CHOOSE i \in d : \A j \in d : i <= j

\* Where templates t1 and t2 part, t1 has the child that is tested first:
\* a literal against a field, or a complex field against a simple field.
tested_before(t1, t2) ==
    LET i == first_difference(t1, t2)
    IN i > 0 /\ sort_key(CompiledRouterNode(template_path(t1)[i]))
                   < sort_key(CompiledRouterNode(template_path(t2)[i]))

\* The registered templates that match the uri.
matching(nodes, uri) == {t \in registered(nodes) : template_matches(t, uri)}

\* Those of them that no other matching template is tested before.
first_tested(nodes, uri) ==
    {t \in matching(nodes, uri) : \A o \in matching(nodes, uri) : ~tested_before(o, t)}

\* C14: when two registered templates match a path completely and part at a
\* level where one has a literal and the other a field, or one a complex and
\* the other a simple field, find returns a match of a template whose child
\* is tested first (literal, then complex, then simple), whatever the order
\* of registration.
C14_SiblingOrder ==
    \A u \in BranchUris :
        (\E t1, t2 \in matching(roots, u) : tested_before(t1, t2))
            => /\ find(Router, u).result.outcome = "match"
               /\ find(Router, u).result.uri_template[1] \in first_tested(roots, u)

----------------------------------------------------------------------------
(* C15: converters that reject a fragment                                  *)

\* The template with the converters taken off its fields.
without_converters(uri_template) ==
    [i \in 1..Len(uri_template) |->
        IF uri_template[i].k = "field"
        THEN Field(uri_template[i].fname, FALSE, <<>>, None) ELSE uri_template[i]]

\* The uri has the form of the template, and a converter of the template
\* rejects the fragment it is given.
rejects(uri_template, uri) ==
    /\ template_matches(without_converters(uri_template), uri)
    /\ ~template_matches(uri_template, uri)

\* A converter returned None while the finder ran.
rejected_during(env) ==
    \E k \in DOMAIN env.field_value : env.field_value[k].kind = "None"

\* C15: a finder in which a converter returns None does not raise; and when
\* a converter of a registered template rejects a fragment of the path, find
\* returns what the search over the other branches gives: the first other
\* template that matches, or None.
C15_RejectionSkipsBranch ==
    /\ compile_and_find(Router).find_fn.compiled =>
           \A u \in BranchUris :
               rejected_during(finder_env(Router, u)) => finder_env(Router, u).status = "return"
    /\ finder_is_current(compile_and_find(Router)) =>
           \A u \in BranchUris :
               (\E t \in registered(roots) : rejects(t, u))
                   => /\ find(Router, u).result.outcome # "raise"
                      /\ find(Router, u).result = reference_search(roots, u)

\* Reached: with /{n:int}/c registered, /b/c yields None and /1/c yields
\* n = 1; and a path whose fragment the converter of a complex field rejects
\* is matched by the simple field next to it.
C15_Witness ==
    /\ finder_is_current(compile_and_find(Router))
    /\ <<Slash, fn_int, Slash, Ch("c")>> \in registered(roots)
    /\ rejected_during(finder_env(Router, <<"/", "b", "/", "c">>))
    /\ find(Router, <<"/", "b", "/", "c">>).result.outcome = "None"
    /\ find(Router, <<"/", "1", "/", "c">>).result.outcome = "match"
    /\ find(Router, <<"/", "1", "/", "c">>).result.params = Put(EmptyDict, <<"n">>, IntV(<<"1">>))
    /\ \E u \in BranchUris :
           /\ \E t \in registered(roots) : is_complex(template_path(t)[2]) /\ rejects(t, u)
           /\ rejected_during(finder_env(Router, u))
           /\ find(Router, u).result.outcome = "match"

----------------------------------------------------------------------------
(* C16: find never raises                                                  *)

\* C16: in every state a sequence of add_route calls (accepted or not)
\* leads to, find returns a match or None for every path, the empty one
\* included, and does not raise; and the finder it runs was compiled
\* together with the tables it is given.
C16_FindNeverRaises ==
    /\ \A u \in Uris : find(Router, u).result.outcome # "raise"
    /\ compile_and_find(Router).find_fn.compiled => finder_is_current(compile_and_find(Router))

----------------------------------------------------------------------------
(* C17: the Dirty and Ready states of the router                           *)

\* Ready: _find is a compiled finder.  Dirty: _find is _compile_and_find.
Ready == find_fn.compiled
Dirty == ~find_fn.compiled

\* C17: a new router is Dirty; a find leaves the router Ready and, when it
\* was Ready already, leaves finder and tables as they were; an add_route
\* that succeeds leaves the router Dirty, or Ready with compile=True; an
\* add_route that fails leaves the state as it was; and the finder of a
\* Ready router is the one compiled from the tree the router holds.
C17_DirtyReady ==
    [][/\ last.op = "init" => Dirty
       /\ Ready => finder_is_current(Router)
       /\ last'.op = "find" =>
              /\ Ready'
              /\ Ready => /\ find_fn' = find_fn /\ return_values' = return_values
                          /\ patterns' = patterns /\ converters' = converters
       /\ (n_calls' = n_calls + 1 /\ last'.outcome = "ok") => (Ready' <=> last'.compile)
       /\ (n_calls' = n_calls + 1 /\ last'.outcome # "ok") => find_fn' = find_fn]_vars

----------------------------------------------------------------------------
(* Threads: lookups by several threads, and one thread that registers      *)
(*                                                                         *)
(* A step is one read or one write of an attribute of the router (_find,   *)
(* _return_values, _patterns, _converters, _roots), or a stretch of code   *)
(* that works on local values only.  The lists the three table attributes  *)
(* refer to are objects: _compile binds each attribute to a new empty list *)
(* and _generate_ast appends to the lists the attributes refer to when it  *)
(* runs, so a thread that read an attribute holds a list that may be       *)
(* filled, or replaced in the router, afterwards.  shared.objects[g] is    *)
(* the content of the three lists made by the g-th call of _compile, and   *)
(* shared.attr says which of them each attribute refers to.  The filling   *)
(* of the lists by _generate_ast and the run of a finder are one step each.*)

Finders == {"t1", "t2"}
Registrar == "reg"

\* The finds one finder thread makes, and the add_route calls of the
\* registrar thread.
MaxFinds == 1
MaxRegistrations == 1

\* The template of the route a router may hold when the threads start.
InitialTemplates ==
    { <<Slash, fx>>,                                    \* /{x}
      <<Slash, Ch("a"), Ch("'")>> }                     \* /a'

\* The routers the threads start on: one add_route was made on a new router.
InitialRouters ==
    {add_route(NewRouter, t, 1, b).router : t \in InitialTemplates, b \in BOOLEAN}

\* The templates the registrar thread registers, and the paths looked up.
ThreadTemplates ==
    { <<Slash, Ch("a"), Slash, Ch("b")>>,               \* /a/b
      <<Slash, fx>> }                                   \* /{x}

ThreadUris ==
    { <<"/", "a">>,
      <<"/", "a", "/", "b">> }

\* A thread that is in no call: pc is its position, f the value of
\* self._find it read (f_gen: the compilation that made it), rv, pat and
\* conv the lists it read from the table attributes, gen the compilation it
\* is running, ast the finder that compilation generated, node the node the
\* finder returned or insert writes to.  A local that is
\* not read again is set back to its initial value.  For the properties,
\* f_gen stays after the call, and mixed says that the finder ran on a list
\* another compilation made.
IdleThread ==
    [pc |-> "idle", uri |-> <<>>, f |-> Lazy, f_gen |-> 0, rv |-> 0, pat |-> 0, conv |-> 0,
     gen |-> 0, ast |-> <<>>, calls |-> 0, result |-> NoResult, mixed |-> FALSE,
     node |-> <<>>]

\* What the threads share on router rt: the lock (its holder, or ""), the
\* lists, the compilation that made the finder in _find (0: none), and, for
\* the properties, the number of compilations started and the router the
\* threads started on.
SharedOf(rt) ==
    [lock |-> "",
     attr |-> [rv |-> 1, pat |-> 1, conv |-> 1],
     objects |-> <<[return_values |-> rt.return_values, patterns |-> rt.patterns,
                    converters |-> rt.converters]>>,
     find_gen |-> IF rt.find_fn.compiled THEN 1 ELSE 0,
     compiles |-> 0,
     initial |-> rt]

InitThreads ==
    \E rt \in InitialRouters :
        /\ roots = rt.roots
        /\ find_fn = rt.find_fn
        /\ return_values = rt.return_values
        /\ patterns = rt.patterns
        /\ converters = rt.converters
        /\ converter_map = BUILTIN
        /\ last = NoCall
        /\ clean = NewRouter
        /\ n_calls = 0
        /\ threads = [t \in Finders \cup {Registrar} |-> IdleThread]
        /\ shared = SharedOf(rt)

\* The table variables are the content of the lists the attributes refer to.
SyncTables ==
    /\ return_values' = shared'.objects[shared'.attr.rv].return_values
    /\ patterns' = shared'.objects[shared'.attr.pat].patterns
    /\ converters' = shared'.objects[shared'.attr.conv].converters

\* find: the call starts (path and params are local).
StartFind(t, u) ==
    /\ threads[t].pc = "idle" /\ threads[t].calls < MaxFinds
    /\ threads' = [threads EXCEPT ![t] = [@ EXCEPT !.pc = "load_find", !.uri = u,
                                                   !.calls = @ + 1, !.result = NoResult,
                                                   !.f_gen = 0, !.mixed = FALSE]]
    /\ UNCHANGED <<roots, find_fn, return_values, patterns, converters, converter_map,
                   last, clean, n_calls, shared>>

\* 'self._find' of the call self._find(path, self._return_values, ...), in
\* find and at the end of _compile_and_find.
LoadFind(t) ==
    /\ threads[t].pc = "load_find"
    /\ threads' = [threads EXCEPT ![t] = [@ EXCEPT !.pc = "load_rv", !.f = find_fn,
                                                   !.f_gen = shared.find_gen]]
    /\ UNCHANGED <<roots, find_fn, return_values, patterns, converters, converter_map,
                   last, clean, n_calls, shared>>

\* 'self._return_values', 'self._patterns', 'self._converters' of that call.
LoadReturnValues(t) ==
    /\ threads[t].pc = "load_rv"
    /\ threads' = [threads EXCEPT ![t] = [@ EXCEPT !.pc = "load_pat", !.rv = shared.attr.rv]]
    /\ UNCHANGED <<roots, find_fn, return_values, patterns, converters, converter_map,
                   last, clean, n_calls, shared>>

LoadPatterns(t) ==
    /\ threads[t].pc = "load_pat"
    /\ threads' = [threads EXCEPT ![t] = [@ EXCEPT !.pc = "load_conv", !.pat = shared.attr.pat]]
    /\ UNCHANGED <<roots, find_fn, return_values, patterns, converters, converter_map,
                   last, clean, n_calls, shared>>

LoadConverters(t) ==
    /\ threads[t].pc = "load_conv"
    /\ threads' = [threads EXCEPT ![t] = [@ EXCEPT !.pc = "call", !.conv = shared.attr.conv]]
    /\ UNCHANGED <<roots, find_fn, return_values, patterns, converters, converter_map,
                   last, clean, n_calls, shared>>

\* The local variables of the finder thread record th holds, once it ran on
\* the lists th holds.
thread_env(th) ==
    run_finder(th.f.ast, route_path(th.uri), shared.objects[th.rv].return_values,
               shared.objects[th.pat].patterns, shared.objects[th.conv].converters)

\* The call of the function read from _find: a compiled finder runs, and
\* find raises, returns None or goes on to read the node the finder
\* returned; _compile_and_find goes for the lock.
Call(t) ==
    /\ threads[t].pc = "call"
    /\ threads' = [threads EXCEPT ![t] =
           IF threads[t].f.compiled
           THEN [@ EXCEPT !.pc = IF thread_env(threads[t]).status = "raise"
                                    \/ thread_env(threads[t]).result = None
                                 THEN "idle" ELSE "load_resource",
                          !.result = IF thread_env(threads[t]).status = "raise"
                                     THEN [NoResult EXCEPT !.outcome = "raise"]
                                     ELSE [NoResult EXCEPT !.params = thread_env(threads[t]).params],
                          !.node = IF thread_env(threads[t]).status = "raise"
                                      \/ thread_env(threads[t]).result = None
                                   THEN <<>> ELSE thread_env(threads[t]).result[1],
                          !.mixed = {threads[t].rv, threads[t].pat, threads[t].conv}
                                        # {threads[t].f_gen},
                          !.f = Lazy, !.rv = 0, !.pat = 0, !.conv = 0]
           ELSE [@ EXCEPT !.pc = "acquire", !.rv = 0, !.pat = 0, !.conv = 0]]
    /\ UNCHANGED <<roots, find_fn, return_values, patterns, converters, converter_map,
                   last, clean, n_calls, shared>>

\* find: 'return node.resource, node.method_map or {}, params,
\* node.uri_template', one read of the node after the other.
LoadField(t) ==
    /\ threads[t].pc \in {"load_resource", "load_method_map", "load_uri_template"}
    /\ threads' = [threads EXCEPT ![t] =
           IF threads[t].pc = "load_resource"
           THEN [@ EXCEPT !.pc = "load_method_map",
                          !.result.resource = node_at(roots, threads[t].node).resource]
           ELSE IF threads[t].pc = "load_method_map"
           THEN [@ EXCEPT !.pc = "load_uri_template",
                          !.result.method_map =
                              IF node_at(roots, threads[t].node).method_map = None THEN {}
                              ELSE node_at(roots, threads[t].node).method_map[1]]
           ELSE [@ EXCEPT !.pc = "idle", !.node = <<>>, !.result.outcome = "match",
                          !.result.uri_template = node_at(roots, threads[t].node).uri_template]]
    /\ UNCHANGED <<roots, find_fn, return_values, patterns, converters, converter_map,
                   last, clean, n_calls, shared>>

\* 'with self._compile_lock:'
Acquire(t) ==
    /\ threads[t].pc = "acquire" /\ shared.lock = ""
    /\ shared' = [shared EXCEPT !.lock = t]
    /\ threads' = [threads EXCEPT ![t] = [@ EXCEPT !.pc = "check"]]
    /\ UNCHANGED <<roots, find_fn, return_values, patterns, converters, converter_map,
                   last, clean, n_calls>>

\* 'if self._find == self._compile_and_find:' and the call of _compile
Check(t) ==
    /\ threads[t].pc = "check"
    /\ threads' = [threads EXCEPT ![t] =
           [@ EXCEPT !.pc = IF find_fn = Lazy THEN "reset_rv" ELSE "release"]]
    /\ shared' = [shared EXCEPT !.compiles = IF find_fn = Lazy THEN @ + 1 ELSE @]
    /\ UNCHANGED <<roots, find_fn, return_values, patterns, converters, converter_map,
                   last, clean, n_calls>>

\* _compile: 'self._return_values = []'
ResetReturnValues(t) ==
    /\ threads[t].pc = "reset_rv"
    /\ shared' = [shared EXCEPT !.objects = Append(@, [return_values |-> <<>>, patterns |-> <<>>,
                                                      converters |-> <<>>]),
                                !.attr.rv = Len(shared.objects) + 1]
    /\ threads' = [threads EXCEPT ![t] = [@ EXCEPT !.pc = "reset_pat",
                                                   !.gen = Len(shared.objects) + 1]]
    /\ SyncTables
    /\ UNCHANGED <<roots, find_fn, converter_map, last, clean, n_calls>>

\* _compile: 'self._patterns = []'
ResetPatterns(t) ==
    /\ threads[t].pc = "reset_pat"
    /\ shared' = [shared EXCEPT !.attr.pat = threads[t].gen]
    /\ threads' = [threads EXCEPT ![t] = [@ EXCEPT !.pc = "reset_conv"]]
    /\ SyncTables
    /\ UNCHANGED <<roots, find_fn, converter_map, last, clean, n_calls>>

\* _compile: 'self._converters = []'
ResetConverters(t) ==
    /\ threads[t].pc = "reset_conv"
    /\ shared' = [shared EXCEPT !.attr.conv = threads[t].gen]
    /\ threads' = [threads EXCEPT ![t] = [@ EXCEPT !.pc = "generate"]]
    /\ SyncTables
    /\ UNCHANGED <<roots, find_fn, converter_map, last, clean, n_calls>>

\* The effect of Generate once _generate_ast and compile() left c.
Generated(t, c) ==
    /\ shared' = [shared EXCEPT !.objects =
           [@ EXCEPT ![shared.attr.rv].return_values = c.return_values,
                     ![shared.attr.pat].patterns = c.patterns,
                     ![shared.attr.conv].converters = c.converters]]
    /\ threads' = [threads EXCEPT ![t] =
           [@ EXCEPT !.pc = IF c.err = "" THEN "publish" ELSE "raise", !.ast = c.ast]]
    /\ SyncTables
    /\ UNCHANGED <<roots, find_fn, converter_map, last, clean, n_calls>>

\* _compile: _generate_ast over the tree appends to the lists the attributes
\* refer to, then the source is compiled.
Generate(t) ==
    /\ threads[t].pc = "generate"
    /\ Generated(t, compile_result(generate_ast(roots, <<>>, <<>>, 0, TRUE,
               [return_values |-> shared.objects[shared.attr.rv].return_values,
                patterns |-> shared.objects[shared.attr.pat].patterns,
                converters |-> shared.objects[shared.attr.conv].converters,
                err |-> ""])))

\* 'self._find = self._compile()': the assignment, once _compile returned.
Publish(t) ==
    /\ threads[t].pc = "publish"
    /\ find_fn' = Compiled(threads[t].ast)
    /\ shared' = [shared EXCEPT !.find_gen = threads[t].gen]
    /\ threads' = [threads EXCEPT ![t] =
           [@ EXCEPT !.pc = IF t = Registrar THEN "idle" ELSE "release",
                     !.gen = 0, !.ast = <<>>]]
    /\ UNCHANGED <<roots, return_values, patterns, converters, converter_map,
                   last, clean, n_calls>>

\* _compile raised: the exception leaves the 'with' block, which releases
\* the lock, and the call (find, or add_route).
RaiseCompile(t) ==
    /\ threads[t].pc = "raise"
    /\ shared' = [shared EXCEPT !.lock = IF t = Registrar THEN @ ELSE ""]
    /\ threads' = [threads EXCEPT ![t] =
           [@ EXCEPT !.pc = "idle", !.result = [NoResult EXCEPT !.outcome = "raise"],
                     !.gen = 0, !.ast = <<>>]]
    /\ UNCHANGED <<roots, find_fn, return_values, patterns, converters, converter_map,
                   last, clean, n_calls>>

\* The end of the 'with' block of _compile_and_find.
Release(t) ==
    /\ threads[t].pc = "release"
    /\ shared' = [shared EXCEPT !.lock = ""]
    /\ threads' = [threads EXCEPT ![t] = [@ EXCEPT !.pc = "load_find"]]
    /\ UNCHANGED <<roots, find_fn, return_values, patterns, converters, converter_map,
                   last, clean, n_calls>>

\* The effect of StartAddRoute once the validation and insert(self._roots)
\* ran and left outcome s = [rejected, nodes, ref].
Inserted(uri_template, compile_now, s) ==
    /\ n_calls' = n_calls + 1
    /\ roots' = s.nodes
    /\ last' = [op |-> "add_route", uri_template |-> uri_template, resource |-> n_calls + 2,
                compile |-> compile_now,
                outcome |-> IF s.rejected THEN "UnacceptableRouteError" ELSE "ok"]
    /\ threads' = [threads EXCEPT ![Registrar] =
           [@ EXCEPT !.pc = IF s.rejected THEN "idle" ELSE "store_method_map",
                     !.node = s.ref]]
    /\ UNCHANGED <<find_fn, return_values, patterns, converters, converter_map, clean,
                   shared>>

\* The node insert ends on: the child indexes, from nodes down, of the nodes
\* that match the segments of path from path_index on (<<>> when a segment
\* has no node).
RECURSIVE terminal_ref(_, _, _)
terminal_ref(nodes, path, path_index) ==
    LET hits == {i \in 1..Len(nodes) : matches(nodes[i], path[path_index + 1])}
    IN IF hits = {} THEN <<>>
       ELSE LET i == CHOOSE h \in hits : \A g \in hits : h <= g
            IN IF path_index + 1 = Len(path) THEN <<i>>
               ELSE IF terminal_ref(nodes[i].children, path, path_index + 1) = <<>> THEN <<>>
               ELSE <<i>> \o terminal_ref(nodes[i].children, path, path_index + 1)

\* The tree with the node at ref replaced by node (the node objects are
\* mutated in place).
RECURSIVE update_node(_, _, _)
update_node(nodes, ref, node) ==
    IF Len(ref) = 1 THEN [nodes EXCEPT ![ref[1]] = node]
    ELSE [nodes EXCEPT ![ref[1]].children = update_node(@, Tail(ref), node)]

\* The validation and the insertion of add_route(uri_template, resource),
\* up to the three assignments to the last node of the path: that node is
\* in the tree, with the fields it had (none, when the node is new).
validate_and_insert(nodes, uri_template, resource) ==
    IF has_whitespace(uri_template) \/ validation_fails(template_path(uri_template))
    THEN [rejected |-> TRUE, nodes |-> nodes, ref |-> <<>>]
    ELSE LET path == template_path(uri_template)
             ins == insert(nodes, path, 0,
                           [method_map |-> map_http_methods(resource), resource |-> resource,
                            uri_template |-> uri_template])
             ref == terminal_ref(ins.nodes, path, 0)
         IN IF ins.err THEN [rejected |-> TRUE, nodes |-> ins.nodes, ref |-> <<>>]
            ELSE [rejected |-> FALSE, ref |-> ref,
                  nodes |-> update_node(ins.nodes, ref,
                      IF terminal_ref(nodes, path, 0) # <<>> THEN node_at(nodes, ref)
                      ELSE [node_at(ins.nodes, ref) EXCEPT !.method_map = None,
                                                           !.resource = None,
                                                           !.uri_template = None])]

\* insert: 'node.method_map = method_map', 'node.resource = resource',
\* 'node.uri_template = uri_template' on the last node of the path, one
\* after the other; then add_route goes on to compile or to reset _find.
StoreField ==
    /\ threads[Registrar].pc \in {"store_method_map", "store_resource", "store_uri_template"}
    /\ roots' = update_node(roots, threads[Registrar].node,
           IF threads[Registrar].pc = "store_method_map"
           THEN [node_at(roots, threads[Registrar].node)
                    EXCEPT !.method_map = Some(map_http_methods(last.resource))]
           ELSE IF threads[Registrar].pc = "store_resource"
           THEN [node_at(roots, threads[Registrar].node)
                    EXCEPT !.resource = Some(last.resource)]
           ELSE [node_at(roots, threads[Registrar].node)
                    EXCEPT !.uri_template = Some(last.uri_template)])
    /\ threads' = [threads EXCEPT ![Registrar] =
           IF threads[Registrar].pc = "store_method_map" THEN [@ EXCEPT !.pc = "store_resource"]
           ELSE IF threads[Registrar].pc = "store_resource"
           THEN [@ EXCEPT !.pc = "store_uri_template"]
           ELSE [@ EXCEPT !.pc = IF last.compile THEN "reset_rv" ELSE "reset_find",
                          !.node = <<>>]]
    /\ shared' = [shared EXCEPT !.compiles =
           IF threads[Registrar].pc = "store_uri_template" /\ last.compile THEN @ + 1 ELSE @]
    /\ UNCHANGED <<find_fn, return_values, patterns, converters, converter_map, last,
                   clean, n_calls>>

\* add_route up to the assignments to the last node; the resource 1 is the
\* one of the route the router held at the start.
StartAddRoute(uri_template, compile_now) ==
    /\ threads[Registrar].pc = "idle" /\ n_calls < MaxRegistrations
    /\ Inserted(uri_template, compile_now,
                validate_and_insert(roots, uri_template, n_calls + 2))

\* add_route: 'self._find = self._compile_and_find'
ResetFind ==
    /\ threads[Registrar].pc = "reset_find"
    /\ find_fn' = Lazy
    /\ shared' = [shared EXCEPT !.find_gen = 0]
    /\ threads' = [threads EXCEPT ![Registrar] = [@ EXCEPT !.pc = "idle"]]
    /\ UNCHANGED <<roots, return_values, patterns, converters, converter_map,
                   last, clean, n_calls>>

\* A step of a thread of find, a step of _compile in whatever thread runs
\* it, or a step of add_route.
NextThreads ==
    \/ \E t \in Finders :
           \/ \E u \in ThreadUris : StartFind(t, u)
           \/ LoadFind(t) \/ LoadReturnValues(t) \/ LoadPatterns(t) \/ LoadConverters(t)
           \/ Call(t) \/ LoadField(t) \/ Acquire(t) \/ Check(t) \/ Release(t)
    \/ \E t \in Finders \cup {Registrar} :
           \/ ResetReturnValues(t) \/ ResetPatterns(t) \/ ResetConverters(t)
           \/ Generate(t) \/ Publish(t) \/ RaiseCompile(t)
    \/ \E tpl \in ThreadTemplates, b \in BOOLEAN : StartAddRoute(tpl, b)
    \/ StoreField
    \/ ResetFind

SpecThreads == InitThreads /\ [][NextThreads]_vars

----------------------------------------------------------------------------
(* C18: concurrent finds on a Dirty router compile once                    *)

\* The positions inside _compile: its first statement ran, the function has
\* not returned or raised yet.
InCompile == {"reset_pat", "reset_conv", "generate"}

\* The positions between the call of _compile and the assignment of _find.
Compiling == {"reset_rv", "reset_pat", "reset_conv", "generate", "publish", "raise"}

\* Thread t made a find and the call is over.
find_done(t) == threads[t].calls > 0 /\ threads[t].pc = "idle"

\* C18: when threads call find on a router that is Dirty at the start and no
\* add_route has been started, _compile is called at most once, and exactly
\* once as soon as a find is over; a thread is between the call of _compile
\* and the assignment of _find only while it holds the lock, so at most one
\* thread is; and every find that is over did not raise and ran the finder
\* of that compilation on the three lists of that compilation.
C18_CompileOnce ==
    (n_calls = 0 /\ ~shared.initial.find_fn.compiled) =>
        /\ shared.compiles <= 1
        /\ Cardinality({t \in Finders : threads[t].pc \in Compiling}) <= 1
        /\ \A t \in Finders : threads[t].pc \in Compiling => shared.lock = t
        /\ \A t \in Finders :
               find_done(t) =>
                   /\ shared.compiles = 1
                   /\ threads[t].result.outcome # "raise"
                   /\ threads[t].f_gen = shared.find_gen
                   /\ threads[t].f_gen # 0
                   /\ ~threads[t].mixed

----------------------------------------------------------------------------
(* C19: one add_route concurrent with finds                                *)

\* What find(uri) returns on a router that holds the tree nodes and
\* compiles it for the lookup.
sequential_result(nodes, uri) ==
    find([shared.initial EXCEPT !.roots = nodes, !.find_fn = Lazy], uri).result

\* C19: while one thread makes add_route calls and others call find, at most
\* one thread is inside _compile; and every find that is over did not
\* raise, ran its finder on the three lists of the compilation that made
\* the finder, and returned what a lookup returns on the tree the threads
\* started on or on the tree as it is now (the tree before or the tree
\* after the registration).
C19_RegistrationAmongFinds ==
    /\ Cardinality({t \in Finders \cup {Registrar} : threads[t].pc \in InCompile}) <= 1
    /\ \A t \in Finders :
           find_done(t) =>
               /\ threads[t].result.outcome # "raise"
               /\ ~threads[t].mixed
               /\ threads[t].result \in {sequential_result(shared.initial.roots, threads[t].uri),
                                         sequential_result(roots, threads[t].uri)}

----------------------------------------------------------------------------
(* C20: the converter registry                                             *)
(*                                                                         *)
(* CompiledRouter.__init__ binds _converter_map to options.converters.data *)
(* and the attribute options.converters cannot be bound again, so the      *)
(* variable converter_map is the one dict both names refer to.             *)

\* The names and the classes options.converters[name] = klass is tried with.
ConverterNames ==
    { <<"n", "o">>,                                     \* 'no'
      <<"1", "o">>,                                     \* '1o'
      <<"n", "o", "\n">>,                               \* 'no<newline>'
      <<>> }                                            \* ''

ConverterClasses == {IntConverter, PathConverter}

\* The URI templates of the runs that change the registry.
RegistryTemplates ==
    { <<Slash, Ch("b"), Slash, fx_nope>>,               \* /b/{x:no}
      <<Slash, fn_int>>,                                \* /{n:int}
      <<Slash, Ch("a"), Slash, Ch("b")>> }              \* /a/b

\* ConverterDict.__setitem__: options.converters[name] = klass.
SetConverter(name, klass) ==
    /\ converter_map' = IF is_identifier(name) THEN Put(converter_map, name, klass)
                        ELSE converter_map
    /\ last' = [op |-> "setitem", name |-> name, klass |-> klass,
                outcome |-> IF is_identifier(name) THEN "ok" ELSE "ValueError"]
    /\ UNCHANGED <<roots, find_fn, return_values, patterns, converters, clean, n_calls,
                   threads, shared>>

\* CompiledRouterOptions.__setattr__: options.converters = value.
RebindConverters ==
    /\ last' = [op |-> "setattr", outcome |-> "AttributeError"]
    /\ UNCHANGED <<roots, find_fn, return_values, patterns, converters, converter_map,
                   clean, n_calls, threads, shared>>

NextRegistry ==
    \/ \E name \in ConverterNames, klass \in ConverterClasses : SetConverter(name, klass)
    \/ RebindConverters
    \/ \E t \in RegistryTemplates, b \in BOOLEAN : AddRoute(t, b)
    \/ \E u \in Uris : Find(u)

SpecRegistry == Init /\ [][NextRegistry]_vars

\* C20: options.converters[name] = klass with a name that is not an
\* identifier raises and leaves the registry as it was; with an identifier it
\* puts klass under name in the registry the router reads; binding
\* options.converters raises and leaves the registry as it was; and
\* add_route of a template whose converter name is in the registry, on a
\* router with no route, is accepted.
C20_RegistryInPlace ==
    [][ /\ (last'.op = "setitem" /\ ~identifier(last'.name)) =>
               (last'.outcome = "ValueError" /\ converter_map' = converter_map)
        /\ (last'.op = "setitem" /\ identifier(last'.name)) =>
               (last'.outcome = "ok"
                /\ converter_map' = Put(converter_map, last'.name, last'.klass))
        /\ last'.op = "setattr" =>
               (last'.outcome = "AttributeError" /\ converter_map' = converter_map)
        /\ (/\ last'.op = "add_route"
            /\ roots = <<>>
            /\ last'.uri_template = <<Slash, Ch("b"), Slash, fx_nope>>
            /\ fx_nope.cname \in DOMAIN converter_map) =>
               last'.outcome # "UnacceptableRouteError"
        /\ last'.op \in {"add_route", "find"} => converter_map' = converter_map
      ]_vars

----------------------------------------------------------------------------
(* C21: how many registered templates match a path                         *)

\* _generate_ast keeps fast_return on every level of the tree: no list of
\* more than one sibling holds a field.
all_fast_return(nodes) ==
    \A lvl \in levels(nodes) :
        Len(lvl) > 1 => \A i \in 1..Len(lvl) : ~is_var(lvl[i].raw_segment)

----------------------------------------------------------------------------
(* C22: add_route after a failed add_route                                 *)

\* The URI templates of the runs in which insert fails below a field.
FailedTemplates ==
    { <<Slash, fx, Slash, fp_path, Ch("."), Ch("a")>>,  \* /{x}/{p:path}.a
      <<Slash, fn_int>>,                                \* /{n:int}
      <<Slash, fx>>,                                    \* /{x}
      <<Slash, fx, Slash, Ch("b")>>,                    \* /{x}/b
      <<Slash, Ch("a"), Slash, Ch("b")>> }              \* /a/b

NextFailed ==
    \/ \E t \in FailedTemplates, b \in BOOLEAN : AddRoute(t, b)
    \/ \E u \in Uris : Find(u)

SpecFailed == Init /\ [][NextFailed]_vars

\* add_route(uri_template) raises UnacceptableRouteError on router rt.
is_rejected(rt, uri_template) ==
    add_route(rt, uri_template, 0, FALSE).outcome = "UnacceptableRouteError"

\* C22: an add_route call is rejected exactly when the same call is rejected
\* by the router on which the calls that failed before it were never made;
\* in particular a call is not rejected for a conflict with a field that a
\* failed call left in the tree.
C22_FailedAddIsForgotten ==
    [][last'.op = "add_route" =>
          ((last'.outcome = "UnacceptableRouteError")
               <=> is_rejected(clean, last'.uri_template))]_vars

----------------------------------------------------------------------------
(* C23: falling through to later siblings                                  *)

\* The finder that find(uri) runs on router rt leaves through a 'return
\* None' that stands among the tests, not through the last line.
returns_at_once(rt, uri) ==
    LET rt1 == compile_and_find(rt)
        env == exec(rt1.find_fn.ast,
                    InitialEnv(route_path(uri), rt1.return_values, rt1.patterns,
                               rt1.converters))
    IN rt1.find_fn.compiled /\ env.status = "return" /\ env.result = None

\* C23: find returns what the search that goes on with the later siblings,
\* at the level of a child whose subtree does not match and at the levels
\* above, returns (with /a/b and /{x}/c registered, /a/c gives /{x}/c with
\* x = a); and the finder returns None at once only when the roots are a
\* single node or all literal.
C23_FallThrough ==
    \A u \in BranchUris :
        /\ find(Router, u).result = reference_search(roots, u)
        /\ returns_at_once(Router, u) => next_fast_return(roots, TRUE)

----------------------------------------------------------------------------
(* C24: the match record of a lookup concurrent with a re-registration     *)

\* The resource, method map and template one add_route call installs.
installed_route(resource, method_map, uri_template) ==
    [resource |-> resource, method_map |-> method_map, uri_template |-> uri_template]

\* What the add_route calls made so far install: the calls that built the
\* router the threads started on, and the call of the registering thread.
routes_of_calls ==
    {installed_route(n.resource, n.method_map[1], n.uri_template) :
         n \in terminals(shared.initial.roots)}
    \cup (IF last.op = "add_route" /\ last.outcome = "ok"
          THEN {installed_route(Some(last.resource), map_http_methods(last.resource),
                                Some(last.uri_template))}
          ELSE {})

\* C24: the resource, the method map and the template of every match find
\* returns were installed by one add_route call, also when the registering
\* thread writes the three fields of the node while the lookup reads them.
C24_MatchRecordOfOneCall ==
    \A t \in Finders :
        (find_done(t) /\ threads[t].result.outcome = "match") =>
            installed_route(threads[t].result.resource, threads[t].result.method_map,
                            threads[t].result.uri_template) \in routes_of_calls

====
